---- MODULE Spec2Model ----
(***************************************************************************)
(* A model of ddcutil-gtk's command transport.                             *)
(*                                                                         *)
(* PrivilegedHelper (privileged_helper.py) keeps one pkexec'd bash alive   *)
(* and frames commands over its stdin/stdout with an end marker; DDCUtil   *)
(* (ddcutil.py) runs ddcutil either through it or as a one-shot child.     *)
(* Callers are asyncio tasks on one event loop: the code between two       *)
(* suspension points (lock wait, readline, process spawn, process wait)    *)
(* runs atomically, and each action below is one such stretch.             *)
(***************************************************************************)
EXTENDS Integers, Sequences, FiniteSets, TLC

\* Bounds of the model.
NumTasks == 3       \* asyncio tasks calling into the transport
MaxCalls == 4       \* calls made in one behaviour
MaxProcs == 2       \* elevated shells spawned in one behaviour
MaxOut == 1         \* output lines of one ddcutil command, before its trailer
MaxSessions == 2    \* PrivilegedHelper objects constructed

Tasks == 1..NumTasks
Procs == 1..MaxProcs
Sessions == 1..MaxSessions
Children == 1..MaxCalls    \* a direct call spawns one ddcutil child

VARIABLES
    pkexec,         \* PrivilegedHelper._pkexec_path is not None
    process,        \* [session -> pid, 0 for None]   PrivilegedHelper._process
    authenticated,  \* [session -> BOOLEAN]           PrivilegedHelper._authenticated
    lockOwner,      \* [session -> task, 0 when free] PrivilegedHelper._lock
    lockWaiters,    \* [session -> Seq(task)]         the lock's queue of waiters
    nsess,          \* PrivilegedHelper objects constructed so far
    task,           \* [task -> its position and locals]
    last,           \* what the call that ended in the last step handed back
    pstate,         \* [pid -> "none" | "running" | "exited"]
    pin,            \* [pid -> Seq of command lines in the shell's stdin]
    pout,           \* [pid -> Seq of lines in the shell's stdout pipe]
    pcur,           \* [pid -> the command the shell is running]
    nproc,          \* pids handed out
    ncalls,         \* calls made
    ncmds,          \* history: commands that entered _run_command; a command's
                    \*   number is its place in the order of arrival at the lock
    pending,        \* history: [pid -> commands written to it whose trailer line
                    \*   has not been read]
    lastw,          \* history: [session -> the command it wrote last]
    timedOut,       \* history: [session -> a run_ddcutil call on it timed out]
    terminated,     \* history: [session -> "no", "stopped" once stop() has ended
                    \*   a process, "closed" once a run saw the stream end]
    closedNow,      \* history: [session -> a run saw the stream end and no
                    \*   process has been assigned since]
    helper,         \* DDCUtil._helper: a session, 0 for None
    issued,         \* history: the operation the step just taken asked of
                    \*   DDCUtil._run_async, and the transport it chose
    child,          \* [child id -> "none" | "running" | "exited"]
    nchild,         \* one-shot children spawned
    text,           \* the input of the function that is run on its own
    cursor,         \* how far into text that function has come
    work,           \* its local variables
    result          \* what it returned, NoResult before

vars == <<pkexec, process, authenticated, lockOwner, lockWaiters, nsess, task,
          last, pstate, pin, pout, pcur, nproc, ncalls, ncmds, pending,
          lastw, timedOut, terminated, closedNow, helper, issued, child, nchild,
          text, cursor, work, result>>

sessVars == <<process, authenticated>>
lockVars == <<lockOwner, lockWaiters>>
procVars == <<pstate, pin, pout, pcur, nproc>>
histVars == <<ncmds, pending, lastw, timedOut, terminated, closedNow>>
directVars == <<child, nchild>>
funcVars == <<text, cursor, work, result>>
transportVars == <<pkexec, process, authenticated, lockOwner, lockWaiters, nsess, task,
                   last, pstate, pin, pout, pcur, nproc, ncalls, ncmds, pending,
                   lastw, timedOut, terminated, closedNow, helper, issued, child,
                   nchild>>

----------------------------------------------------------------------------
\* Values

NoCmd == [cmd |-> 0, kind |-> "none", left |-> 0, code |-> 0]
ExitLine == [cmd |-> 0, kind |-> "exit"]

\* _run_command line 106: full_cmd = f'{command}; echo "{marker}$?";\n'
FullCmd(c, o) == [cmd |-> c, kind |-> IF o = "start" THEN "probe" ELSE "ddcutil"]

\* A line of the shell's stdout. txt is what the code looks at: "marker" for a
\* line that starts with ___END_CMD___, "authenticated" for the probe's echo,
\* "data" for ddcutil's output. code is the number after the marker.
DataLine(c, k) == [cmd |-> c, txt |-> IF k = "probe" THEN "authenticated" ELSE "data",
                   code |-> 0]
TrailerLine(c, rc) == [cmd |-> c, txt |-> "marker", code |-> rc]

\* ahead (history): the waiters that were queued on the lock when it arrived
IdleTask == [pc |-> "idle", op |-> "none", sess |-> 0, cmd |-> 0, rd |-> 0,
             outl |-> <<>>, ahead |-> 0]

NoRet == [op |-> "none", sess |-> 0, how |-> "none", cause |-> "none", rc |-> 0,
          out |-> <<>>, err |-> "", trailer |-> 0, cmd |-> 0, val |-> FALSE,
          kid |-> 0]

\* the operations of DDCUtil that go through _run_async
FacadeOps == {"detect", "getvcp", "setvcp", "capabilities"}
NoIssue == [what |-> "none", route |-> "none"]
NoResult == [how |-> "none"]

Set1(f, k, v) == [f EXCEPT ![k] = v]

Remove(q, t) == SelectSeq(q, LAMBDA x : x # t)

\* Idle tasks are interchangeable: a call is made by the first of them.
FirstIdle(t) ==
    /\ task[t].pc = "idle"
    /\ \A u \in Tasks : u < t => task[u].pc # "idle"

TypeOK ==
    /\ pkexec \in BOOLEAN
    /\ process \in [Sessions -> 0..MaxProcs]
    /\ authenticated \in [Sessions -> BOOLEAN]
    /\ lockOwner \in [Sessions -> 0..NumTasks]
    /\ nsess \in 0..MaxSessions
    /\ nproc \in 0..MaxProcs
    /\ ncalls \in 0..MaxCalls
    /\ ncmds \in 0..MaxCalls
    /\ \A t \in Tasks : task[t].pc \in {"idle", "spawn", "wait_lock", "read",
                                        "stop_wait", "exec", "communicate"}
    /\ \A p \in Procs : pstate[p] \in {"none", "running", "exited"}
    /\ \A s \in Sessions : terminated[s] \in {"no", "stopped", "closed"}
    /\ closedNow \in [Sessions -> BOOLEAN]
    /\ helper \in 0..MaxSessions
    /\ issued.what \in FacadeOps \cup {"none"}
    /\ issued.route \in {"none", "session", "direct"}

----------------------------------------------------------------------------
\* What a call hands back

\* run_ddcutil line 91 / _run_command line 102: raise RuntimeError(...)
RaiseNotAuthenticated(s, c, o) ==
    [NoRet EXCEPT !.sess = s, !.cmd = c, !.op = o, !.how = "raise", !.cause = "not_authenticated",
                  !.err = "RuntimeError"]

\* _run_command lines 130-136, 143-144: the marker line was read
MarkerResult(s, c, o, outl, l) ==
    [NoRet EXCEPT !.sess = s, !.cmd = c, !.op = o, !.how = "return", !.cause = "marker",
                  !.rc = l.code, !.out = outl, !.trailer = l.cmd]

\* _run_command lines 122-126, 143-144: readline returned b"" (end of stream)
EofResult(s, c, o, outl) ==
    [NoRet EXCEPT !.sess = s, !.cmd = c, !.op = o, !.how = "return", !.cause = "eof",
                  !.rc = 0, !.out = outl]

\* _run_command lines 140-141: return ("", "Command timed out", -1)
TimeoutResult(s, c, o) ==
    [NoRet EXCEPT !.sess = s, !.cmd = c, !.op = o, !.how = "return", !.cause = "timeout",
                  !.rc = -1, !.err = "Command timed out"]

\* _run_command lines 146-147: return ("", str(e), -1)
ExceptionResult(s, c, o) ==
    [NoRet EXCEPT !.sess = s, !.cmd = c, !.op = o, !.how = "return", !.cause = "exception",
                  !.rc = -1, !.err = "str(e)"]

\* start: return True / return False
StartResult(s, c, v, why) ==
    [NoRet EXCEPT !.sess = s, !.cmd = c, !.op = "start", !.how = "return", !.cause = why,
                  !.val = v]

\* stop returns None, or lets the exception of its except-handler through; as
\* the tail of start (line 62) the result is start's: line 63, or lines 65-68.
StopResult(s, c, o, how) ==
    IF o = "start" THEN StartResult(s, c, FALSE, "probe_failed")
    ELSE [NoRet EXCEPT !.sess = s, !.op = o, !.how = how, !.cause = "stop",
                       !.err = IF how = "raise" THEN "Error" ELSE ""]

\* ddcutil.py lines 155-157: await self._helper.stop(), then, if stop came
\* back without an exception, self._helper = None (o = "stop_priv")
AfterStop(o, how) == IF o = "stop_priv" /\ how = "return" THEN 0 ELSE helper

\* start line 58: result and "authenticated" in result[0]
ProbeOk(r) ==
    /\ r.how = "return"
    /\ \E i \in 1..Len(r.out) : r.out[i].txt = "authenticated"

\* stop lines 80-81 and _run_command lines 124-125 leave the session without a
\* process; the history keeps a stop() call made as such (not the tail of a
\* failed start) and whether a run saw the stream end.
Stopped(term, o) ==
    IF o = "start" THEN term
    ELSE IF term = "closed" THEN "closed" ELSE "stopped"
Closed(term, o) == IF o = "run" THEN "closed" ELSE term

----------------------------------------------------------------------------
\* The effect of each branch of _run_command's read loop on the session

\* a timeout branch that would end the session
SessionMutantTimeoutClears(P, A) == [process |-> 0, authenticated |-> FALSE]

\* lines 140-141: the timeout branch only returns
OnTimeout(P, A) == [process |-> P, authenticated |-> A]

\* an end-of-stream branch that would set the flag instead of clearing it
SessionMutantEofAuthenticates(P, A) == [process |-> 0, authenticated |-> TRUE]

\* an end-of-stream branch that would leave the session as it is
SessionMutantEofKeeps(P, A) == [process |-> P, authenticated |-> A]

\* lines 122-126: self._authenticated = False; self._process = None
OnEof(P, A) == [process |-> 0, authenticated |-> FALSE]

\* a guard that would look at the process handle only
GuardMutantProcessOnly(P, A) == P = 0

\* run_ddcutil line 90: not self._process or not self._authenticated
NotReady(P, A) == P = 0 \/ ~A

\* a lock that would wake the waiter that came last
LockMutantLastWaiter(q) == q[Len(q)]

\* a lock that would wake no waiter when it is released
LockMutantWakesNobody(q) == 0

\* asyncio.Lock (line 21) wakes its waiters first come, first served
NextWaiter(q) == Head(q)

----------------------------------------------------------------------------
\* PrivilegedHelper: stop, start's tail and _run_command. P and A are the
\* values of self._process and self._authenticated at that point of the
\* atomic stretch; inPin and inTerm likewise for pin and terminated.

Waiting(o, s, c, a) ==
    [IdleTask EXCEPT !.pc = "wait_lock", !.op = o, !.sess = s, !.cmd = c, !.ahead = a]
Reading(o, s, c, p, a) ==
    [IdleTask EXCEPT !.pc = "read", !.op = o, !.sess = s, !.cmd = c, !.rd = p,
                     !.ahead = a]
StopWaiting(o, s, c, p) ==
    [IdleTask EXCEPT !.pc = "stop_wait", !.op = o, !.sess = s, !.cmd = c, !.rd = p]
Spawning(s, p) ==
    [IdleTask EXCEPT !.pc = "spawn", !.op = "start", !.sess = s, !.rd = p]

\* stop, lines 70-81, entered with self._process = P
StopFrom(t, s, o, c, P, A, inPin, inTerm) ==
    IF P = 0
    THEN \* line 72: no process, nothing is done
         /\ process' = Set1(process, s, P)
         /\ authenticated' = Set1(authenticated, s, A)
         /\ pin' = inPin
         /\ terminated' = inTerm
         /\ task' = Set1(task, t, IdleTask)
         /\ last' = StopResult(s, c, o, "return")
    ELSE \/ \* lines 74-76: "exit\n" written and drained; suspended in wait()
            /\ pin' = IF pstate[P] = "running"
                      THEN Set1(inPin, P, Append(inPin[P], ExitLine))
                      ELSE inPin
            /\ process' = Set1(process, s, P)
            /\ authenticated' = Set1(authenticated, s, A)
            /\ terminated' = inTerm
            /\ task' = Set1(task, t, StopWaiting(o, s, c, P))
            /\ last' = NoRet
         \/ \* line 75: drain raises on the closed pipe of a dead shell;
            \* line 78: kill() of a dead process passes or raises
            \* ProcessLookupError; lines 80-81 run either way
            /\ pstate[P] = "exited"
            /\ pin' = inPin
            /\ process' = Set1(process, s, 0)
            /\ authenticated' = Set1(authenticated, s, FALSE)
            /\ terminated' = Set1(inTerm, s, Stopped(inTerm[s], o))
            /\ task' = Set1(task, t, IdleTask)
            /\ \E how \in {"return", "raise"} : last' = StopResult(s, c, o, how)

\* _run_command has left its `async with` block with r. For run_ddcutil r goes
\* to the caller (line 94); for start, lines 58-68 follow without suspension.
Complete(t, s, o, c, r, P, A, inPin, inTerm) ==
    IF o # "start"
    THEN /\ process' = Set1(process, s, P)
         /\ authenticated' = Set1(authenticated, s, A)
         /\ pin' = inPin
         /\ terminated' = inTerm
         /\ task' = Set1(task, t, IdleTask)
         /\ last' = r
    ELSE IF r.how = "raise"
    THEN \* lines 65-68
         /\ process' = Set1(process, s, 0)
         /\ authenticated' = Set1(authenticated, s, FALSE)
         /\ pin' = inPin
         /\ terminated' = inTerm
         /\ task' = Set1(task, t, IdleTask)
         /\ last' = StartResult(s, c, FALSE, "exception")
    ELSE IF ProbeOk(r)
    THEN \* lines 58-60
         /\ process' = Set1(process, s, P)
         /\ authenticated' = Set1(authenticated, s, TRUE)
         /\ pin' = inPin
         /\ terminated' = inTerm
         /\ task' = Set1(task, t, IdleTask)
         /\ last' = StartResult(s, c, TRUE, "probe_ok")
    ELSE \* lines 61-63
         StopFrom(t, s, o, c, P, A, inPin, inTerm)

\* _run_command lines 100-110, the lock just taken; W is the waiters left
Body(t, s, o, c, P, A, W, inSt) ==
    IF P = 0
    THEN \* lines 101-102
         /\ lockOwner' = Set1(lockOwner, s, 0)
         /\ lockWaiters' = Set1(lockWaiters, s, W)
         /\ UNCHANGED <<pending, lastw>>
         /\ Complete(t, s, o, c, RaiseNotAuthenticated(s, c, o), P, A, pin, terminated)
    ELSE \/ \* lines 106-110: the line is written; lines 116-121: first readline
            /\ lockOwner' = Set1(lockOwner, s, t)
            /\ lockWaiters' = Set1(lockWaiters, s, W)
            /\ pending' = Set1(pending, P, pending[P] \cup {c})
            /\ lastw' = Set1(lastw, s, c)
            /\ pin' = IF inSt[P] = "running"
                      THEN Set1(pin, P, Append(pin[P], FullCmd(c, o)))
                      ELSE pin
            /\ process' = Set1(process, s, P)
            /\ authenticated' = Set1(authenticated, s, A)
            /\ terminated' = terminated
            /\ task' = Set1(task, t, Reading(o, s, c, P, task[t].ahead))
            /\ last' = NoRet
         \/ \* line 110: drain raises on the closed pipe; lines 146-147
            /\ inSt[P] = "exited"
            /\ lockOwner' = Set1(lockOwner, s, 0)
            /\ lockWaiters' = Set1(lockWaiters, s, W)
            /\ UNCHANGED <<pending, lastw>>
            /\ Complete(t, s, o, c, ExceptionResult(s, c, o), P, A, pin, terminated)

\* _run_command line 100: async with self._lock
EnterCmd(t, s, o, P, A, inSt) ==
    /\ ncmds' = ncmds + 1
    /\ IF lockOwner[s] = 0 /\ lockWaiters[s] = <<>>
       THEN Body(t, s, o, ncmds + 1, P, A, <<>>, inSt)
       ELSE /\ lockWaiters' = Set1(lockWaiters, s, Append(lockWaiters[s], t))
            /\ lockOwner' = lockOwner
            /\ task' = Set1(task, t, Waiting(o, s, ncmds + 1, Len(lockWaiters[s])))
            /\ process' = Set1(process, s, P)
            /\ authenticated' = Set1(authenticated, s, A)
            /\ last' = NoRet
            /\ UNCHANGED <<pin, pending, lastw, terminated>>

----------------------------------------------------------------------------
\* The calls and their resumptions

\* run_ddcutil lines 90-94
RunBody(t, s) ==
    IF NotReady(process[s], authenticated[s])
    THEN /\ last' = RaiseNotAuthenticated(s, 0, "run")
         /\ UNCHANGED <<task, sessVars, lockVars, pin, ncmds, pending, lastw,
                        terminated>>
    ELSE EnterCmd(t, s, "run", process[s], authenticated[s], pstate)

\* run_ddcutil, lines 83-94, up to the first suspension of _run_command
CallRun(t, s) ==
    /\ FirstIdle(t)
    /\ ncalls < MaxCalls
    /\ s \in 1..nsess
    /\ ncalls' = ncalls + 1
    /\ RunBody(t, s)
    /\ issued' = NoIssue
    /\ UNCHANGED funcVars
    /\ UNCHANGED <<pkexec, nsess, helper, pstate, pout, pcur, nproc, timedOut, closedNow,
                   directVars>>

\* the lock is handed to the waiter: _run_command lines 100-110
LockResume(t) ==
    /\ task[t].pc = "wait_lock"
    /\ LET s == task[t].sess IN
         /\ lockOwner[s] = 0
         /\ lockWaiters[s] # <<>>
         /\ NextWaiter(lockWaiters[s]) = t
         /\ Body(t, s, task[t].op, task[t].cmd, process[s], authenticated[s],
                 Remove(lockWaiters[s], t), pstate)
    /\ issued' = NoIssue
    /\ UNCHANGED funcVars
    /\ UNCHANGED <<pkexec, nsess, helper, pstate, pout, pcur, nproc, ncalls, ncmds, timedOut,
                   closedNow, directVars>>

\* _run_command lines 118-138: readline returned a line
ReadAvail(t) ==
    /\ task[t].pc = "read"
    /\ LET s == task[t].sess
           p == task[t].rd
           o == task[t].op
           c == task[t].cmd
       IN
         /\ pout[p] # <<>>
         /\ pout' = Set1(pout, p, Tail(pout[p]))
         /\ LET l == Head(pout[p]) IN
              IF l.txt = "marker"
              THEN \* lines 130-136, 143-144
                   /\ pending' = Set1(pending, p, pending[p] \ {l.cmd})
                   /\ lockOwner' = Set1(lockOwner, s, 0)
                   /\ lockWaiters' = lockWaiters
                   /\ Complete(t, s, o, c, MarkerResult(s, c, o, task[t].outl, l),
                               process[s], authenticated[s], pin, terminated)
              ELSE /\ pending' = pending
                   /\ IF process[s] = 0
                      THEN \* line 138, then line 119 with self._process None:
                           \* AttributeError, lines 146-147
                           /\ lockOwner' = Set1(lockOwner, s, 0)
                           /\ lockWaiters' = lockWaiters
                           /\ Complete(t, s, o, c, ExceptionResult(s, c, o),
                                       process[s], authenticated[s], pin, terminated)
                      ELSE \* line 138, then line 119 on the current self._process
                           /\ task' = Set1(task, t, [task[t] EXCEPT
                                             !.rd = process[s],
                                             !.outl = Append(@, l)])
                           /\ last' = NoRet
                           /\ UNCHANGED <<lockVars, sessVars, pin, terminated>>
    /\ issued' = NoIssue
    /\ UNCHANGED funcVars
    /\ UNCHANGED <<pkexec, nsess, helper, pstate, pcur, nproc, ncalls, ncmds, lastw, timedOut,
                   closedNow, directVars>>

\* _run_command lines 122-126: readline returned b""
ReadEof(t) ==
    /\ task[t].pc = "read"
    /\ LET s == task[t].sess
           p == task[t].rd
           o == task[t].op
           c == task[t].cmd
           eff == OnEof(process[s], authenticated[s])
       IN
         /\ pout[p] = <<>>
         /\ pstate[p] = "exited"
         /\ lockOwner' = Set1(lockOwner, s, 0)
         /\ lockWaiters' = lockWaiters
         /\ Complete(t, s, o, c, EofResult(s, c, o, task[t].outl),
                     eff.process, eff.authenticated, pin,
                     Set1(terminated, s, Closed(terminated[s], o)))
         /\ closedNow' = Set1(closedNow, s, closedNow[s] \/ o = "run")
    /\ issued' = NoIssue
    /\ UNCHANGED funcVars
    /\ UNCHANGED <<pkexec, nsess, helper, procVars, ncalls, ncmds, pending, lastw, timedOut,
                   directVars>>

\* _run_command lines 140-141: no line within the timeout
ReadTimeout(t) ==
    /\ task[t].pc = "read"
    /\ LET s == task[t].sess
           p == task[t].rd
           o == task[t].op
           c == task[t].cmd
           eff == OnTimeout(process[s], authenticated[s])
       IN
         /\ pout[p] = <<>>
         /\ pstate[p] = "running"
         /\ timedOut' = IF o = "run" THEN Set1(timedOut, s, TRUE) ELSE timedOut
         /\ lockOwner' = Set1(lockOwner, s, 0)
         /\ lockWaiters' = lockWaiters
         /\ Complete(t, s, o, c, TimeoutResult(s, c, o),
                     eff.process, eff.authenticated, pin, terminated)
    /\ issued' = NoIssue
    /\ UNCHANGED funcVars
    /\ UNCHANGED <<pkexec, nsess, helper, pstate, pout, pcur, nproc, ncalls, ncmds, pending,
                   lastw, closedNow, directVars>>

\* a pkexec that would not be looked for
StartMutantIgnoresPkexec(path) == FALSE

\* start line 42: not self._pkexec_path
PkexecMissing(path) == ~path

\* start lines 39-54 on a session whose self._process is P
StartBody(t, s, P) ==
    IF P # 0
    THEN \* lines 39-40
         /\ last' = StartResult(s, 0, TRUE, "already")
         /\ UNCHANGED <<task, nproc>>
    ELSE IF PkexecMissing(pkexec)
    THEN \* lines 42-43
         /\ last' = StartResult(s, 0, FALSE, "no_pkexec")
         /\ UNCHANGED <<task, nproc>>
    ELSE \* lines 47-54
         /\ nproc' = nproc + 1
         /\ task' = Set1(task, t, Spawning(s, nproc + 1))
         /\ last' = NoRet

\* start, lines 33-54, up to the suspension in create_subprocess_exec
CallStart(t, s) ==
    /\ FirstIdle(t)
    /\ ncalls < MaxCalls
    /\ s \in 1..nsess
    /\ process[s] # 0 \/ ~pkexec \/ nproc < MaxProcs
    /\ ncalls' = ncalls + 1
    /\ StartBody(t, s, process[s])
    /\ issued' = NoIssue
    /\ UNCHANGED funcVars
    /\ UNCHANGED <<pkexec, nsess, helper, sessVars, lockVars, pstate, pin, pout, pcur,
                   histVars, directVars>>

\* start lines 48-57: the shell is spawned, self._process set, the probe sent
SpawnDone(t) ==
    /\ task[t].pc = "spawn"
    /\ LET s == task[t].sess
           p == task[t].rd
       IN
         /\ pstate' = Set1(pstate, p, "running")
         /\ EnterCmd(t, s, "start", p, authenticated[s], Set1(pstate, p, "running"))
         /\ closedNow' = Set1(closedNow, s, FALSE)
    /\ issued' = NoIssue
    /\ UNCHANGED funcVars
    /\ UNCHANGED <<pkexec, nsess, helper, pout, pcur, nproc, ncalls, timedOut, directVars>>

\* start lines 48, 65-68: create_subprocess_exec raises
SpawnFail(t) ==
    /\ task[t].pc = "spawn"
    /\ LET s == task[t].sess IN
         /\ process' = Set1(process, s, 0)
         /\ authenticated' = Set1(authenticated, s, FALSE)
         /\ last' = StartResult(s, 0, FALSE, "exception")
    /\ task' = Set1(task, t, IdleTask)
    /\ issued' = NoIssue
    /\ UNCHANGED funcVars
    /\ UNCHANGED <<pkexec, nsess, helper, lockVars, procVars, ncalls, histVars, directVars>>

\* stop, lines 70-76
CallStop(t, s) ==
    /\ FirstIdle(t)
    /\ ncalls < MaxCalls
    /\ s \in 1..nsess
    /\ ncalls' = ncalls + 1
    /\ StopFrom(t, s, "stop", 0, process[s], authenticated[s], pin, terminated)
    /\ issued' = NoIssue
    /\ UNCHANGED funcVars
    /\ UNCHANGED <<pkexec, nsess, helper, lockVars, pstate, pout, pcur, nproc, ncmds, pending,
                   lastw, timedOut, closedNow, directVars>>

\* stop lines 76, 79-81: the process exited within the 2 s
StopExited(t) ==
    /\ task[t].pc = "stop_wait"
    /\ pstate[task[t].rd] = "exited"
    /\ LET s == task[t].sess IN
         /\ process' = Set1(process, s, 0)
         /\ authenticated' = Set1(authenticated, s, FALSE)
         /\ terminated' = Set1(terminated, s, Stopped(terminated[s], task[t].op))
         /\ last' = StopResult(s, task[t].cmd, task[t].op, "return")
    /\ task' = Set1(task, t, IdleTask)
    /\ helper' = AfterStop(task[t].op, last'.how)
    /\ issued' = NoIssue
    /\ UNCHANGED funcVars
    /\ UNCHANGED <<pkexec, nsess, lockVars, procVars, ncalls, ncmds, pending, lastw,
                   timedOut, closedNow, directVars>>

\* stop lines 76-81: wait_for timed out; self._process.kill() on what
\* self._process is by now
StopTimeout(t) ==
    /\ task[t].pc = "stop_wait"
    /\ pstate[task[t].rd] = "running"
    /\ LET s == task[t].sess
           q == process[s]
       IN
         /\ process' = Set1(process, s, 0)
         /\ authenticated' = Set1(authenticated, s, FALSE)
         /\ terminated' = Set1(terminated, s, Stopped(terminated[s], task[t].op))
         /\ IF q = 0
            THEN \* None.kill(): AttributeError leaves stop
                 /\ last' = StopResult(s, task[t].cmd, task[t].op, "raise")
                 /\ UNCHANGED <<pstate, pin, pcur>>
            ELSE IF pstate[q] = "running"
            THEN /\ pstate' = Set1(pstate, q, "exited")
                 /\ pin' = Set1(pin, q, <<>>)
                 /\ pcur' = Set1(pcur, q, NoCmd)
                 /\ last' = StopResult(s, task[t].cmd, task[t].op, "return")
            ELSE \* kill() of a dead process passes or raises ProcessLookupError
                 /\ \E how \in {"return", "raise"} :
                        last' = StopResult(s, task[t].cmd, task[t].op, how)
                 /\ UNCHANGED <<pstate, pin, pcur>>
    /\ task' = Set1(task, t, IdleTask)
    /\ helper' = AfterStop(task[t].op, last'.how)
    /\ issued' = NoIssue
    /\ UNCHANGED funcVars
    /\ UNCHANGED <<pkexec, nsess, lockVars, pout, nproc, ncalls, ncmds, pending, lastw,
                   timedOut, closedNow, directVars>>

----------------------------------------------------------------------------
\* The elevated shell: pkexec /bin/bash reading command lines from its stdin

\* bash takes the next line: a framed command, or stop's "exit"
ShellRead(p) ==
    /\ pstate[p] = "running"
    /\ pcur[p] = NoCmd
    /\ pin[p] # <<>>
    /\ LET l == Head(pin[p]) IN
         IF l.kind = "exit"
         THEN /\ pstate' = Set1(pstate, p, "exited")
              /\ pin' = Set1(pin, p, <<>>)
              /\ pcur' = pcur
         ELSE /\ pstate' = pstate
              /\ pin' = Set1(pin, p, Tail(pin[p]))
              /\ \E n \in (IF l.kind = "probe" THEN {1} ELSE 0..MaxOut),
                    rc \in (IF l.kind = "probe" THEN {0} ELSE {0, 1}) :
                     pcur' = Set1(pcur, p, [cmd |-> l.cmd, kind |-> l.kind,
                                            left |-> n, code |-> rc])
    /\ last' = NoRet
    /\ issued' = NoIssue
    /\ UNCHANGED funcVars
    /\ UNCHANGED <<pkexec, nsess, helper, sessVars, lockVars, task, pout, nproc, ncalls,
                   histVars, directVars>>

\* the command prints a line, or ends and `echo "___END_CMD___$?"` prints
ShellEmit(p) ==
    /\ pstate[p] = "running"
    /\ pcur[p] # NoCmd
    /\ IF pcur[p].left > 0
       THEN /\ pout' = Set1(pout, p, Append(pout[p], DataLine(pcur[p].cmd, pcur[p].kind)))
            /\ pcur' = Set1(pcur, p, [pcur[p] EXCEPT !.left = @ - 1])
       ELSE /\ pout' = Set1(pout, p, Append(pout[p], TrailerLine(pcur[p].cmd, pcur[p].code)))
            /\ pcur' = Set1(pcur, p, NoCmd)
    /\ last' = NoRet
    /\ issued' = NoIssue
    /\ UNCHANGED funcVars
    /\ UNCHANGED <<pkexec, nsess, helper, sessVars, lockVars, task, pstate, pin, nproc,
                   ncalls, histVars, directVars>>

\* the prompt is cancelled or refused, or the shell dies
ProcDie(p) ==
    /\ pstate[p] = "running"
    /\ pstate' = Set1(pstate, p, "exited")
    /\ pin' = Set1(pin, p, <<>>)
    /\ pcur' = Set1(pcur, p, NoCmd)
    /\ last' = NoRet
    /\ issued' = NoIssue
    /\ UNCHANGED funcVars
    /\ UNCHANGED <<pkexec, nsess, helper, sessVars, lockVars, task, pout, nproc, ncalls,
                   histVars, directVars>>

----------------------------------------------------------------------------
\* DDCUtil._run_async without a session: one ddcutil child per call

\* what ddcutil may leave on its stderr
StderrTexts == {"", "Permission denied", "I2C ACCESS error", "DDC communication failed"}

\* the characters of each of those texts
StderrChars(e) ==
    CASE e = "" -> <<>>
      [] e = "Permission denied" ->
            <<"P", "e", "r", "m", "i", "s", "s", "i", "o", "n", " ",
              "d", "e", "n", "i", "e", "d">>
      [] e = "I2C ACCESS error" ->
            <<"I", "2", "C", " ", "A", "C", "C", "E", "S", "S", " ",
              "e", "r", "r", "o", "r">>
      [] e = "DDC communication failed" ->
            <<"D", "D", "C", " ", "c", "o", "m", "m", "u", "n", "i", "c", "a", "t",
              "i", "o", "n", " ", "f", "a", "i", "l", "e", "d">>

\* str.lower() on one character
LowerChar(c) ==
    CASE c = "A" -> "a" [] c = "B" -> "b" [] c = "C" -> "c" [] c = "D" -> "d"
      [] c = "E" -> "e" [] c = "F" -> "f" [] c = "G" -> "g" [] c = "H" -> "h"
      [] c = "I" -> "i" [] c = "J" -> "j" [] c = "K" -> "k" [] c = "L" -> "l"
      [] c = "M" -> "m" [] c = "N" -> "n" [] c = "O" -> "o" [] c = "P" -> "p"
      [] c = "Q" -> "q" [] c = "R" -> "r" [] c = "S" -> "s" [] c = "T" -> "t"
      [] c = "U" -> "u" [] c = "V" -> "v" [] c = "W" -> "w" [] c = "X" -> "x"
      [] c = "Y" -> "y" [] c = "Z" -> "z" [] OTHER -> c

\* str.lower()
PermissionMutantCaseSensitive(str) == str

Lower(str) == [i \in 1..Len(str) |-> LowerChar(str[i])]

\* sub in str
Contains(str, sub) ==
    \E i \in 1..(Len(str) - Len(sub) + 1) : SubSeq(str, i, i + Len(sub) - 1) = sub

\* the two literals of ddcutil.py line 194
permission == <<"p", "e", "r", "m", "i", "s", "s", "i", "o", "n">>
access == <<"a", "c", "c", "e", "s", "s">>

\* ddcutil.py line 194: "permission" in stderr_str.lower() or "access" in
\* stderr_str.lower()
MentionsPermission(stderr_str) ==
    \/ Contains(Lower(stderr_str), permission)
    \/ Contains(Lower(stderr_str), access)

\* ddcutil.py line 194 on the texts of StderrTexts
PermissionIndicated(e) == MentionsPermission(StderrChars(e))

Launching(k) == [IdleTask EXCEPT !.pc = "exec", !.op = "direct", !.rd = k]
Communicating(k) == [IdleTask EXCEPT !.pc = "communicate", !.op = "direct", !.rd = k]

\* ddcutil.py lines 193-202: the child has ended with rc and stderr e
DirectResult(k, rc, e) ==
    IF rc # 0 /\ PermissionIndicated(e)
    THEN [NoRet EXCEPT !.op = "direct", !.how = "raise", !.cause = "permission",
                       !.err = "PermissionError", !.kid = k]
    ELSE [NoRet EXCEPT !.op = "direct", !.how = "return", !.cause = "exit",
                       !.rc = rc, !.err = e, !.kid = k]

\* ddcutil.py lines 203-204: raise DDCUtilError("ddcutil command timed out")
DirectTimeout(k) ==
    [NoRet EXCEPT !.op = "direct", !.how = "raise", !.cause = "timeout",
                  !.err = "DDCUtilError", !.kid = k]

\* create_subprocess_exec raises (no such file): not caught in _run_async
DirectLaunchError(k) ==
    [NoRet EXCEPT !.op = "direct", !.how = "raise", !.cause = "launch",
                  !.err = "OSError", !.kid = k]

sessionVars == <<pkexec, sessVars, lockVars, nsess, helper, procVars, nproc, histVars>>

\* _run_async lines 179-185, up to the suspension in create_subprocess_exec
CallDirect(t) ==
    /\ FirstIdle(t)
    /\ ncalls < MaxCalls
    /\ ncalls' = ncalls + 1
    /\ nchild' = nchild + 1
    /\ task' = Set1(task, t, Launching(nchild + 1))
    /\ last' = NoRet
    /\ issued' = NoIssue
    /\ UNCHANGED funcVars
    /\ UNCHANGED <<sessionVars, child>>

\* lines 181-188: the child runs; suspended in wait_for(proc.communicate())
ExecDone(t) ==
    /\ task[t].pc = "exec"
    /\ child' = Set1(child, task[t].rd, "running")
    /\ task' = Set1(task, t, Communicating(task[t].rd))
    /\ last' = NoRet
    /\ issued' = NoIssue
    /\ UNCHANGED funcVars
    /\ UNCHANGED <<sessionVars, ncalls, nchild>>

\* line 181: create_subprocess_exec raises
ExecFail(t) ==
    /\ task[t].pc = "exec"
    /\ task' = Set1(task, t, IdleTask)
    /\ last' = DirectLaunchError(task[t].rd)
    /\ issued' = NoIssue
    /\ UNCHANGED funcVars
    /\ UNCHANGED <<sessionVars, ncalls, directVars>>

\* lines 186-202: the child ended within the timeout
CommDone(t) ==
    /\ task[t].pc = "communicate"
    /\ child[task[t].rd] = "running"
    /\ child' = Set1(child, task[t].rd, "exited")
    /\ task' = Set1(task, t, IdleTask)
    /\ \E rc \in {0, 1}, e \in StderrTexts : last' = DirectResult(task[t].rd, rc, e)
    /\ issued' = NoIssue
    /\ UNCHANGED funcVars
    /\ UNCHANGED <<sessionVars, ncalls, nchild>>

\* lines 186-188, 203-204: wait_for cancels communicate() and the
\* TimeoutError becomes DDCUtilError; nothing is done to proc
CommTimeout(t) ==
    /\ task[t].pc = "communicate"
    /\ child[task[t].rd] = "running"
    /\ child' = child
    /\ task' = Set1(task, t, IdleTask)
    /\ last' = DirectTimeout(task[t].rd)
    /\ issued' = NoIssue
    /\ UNCHANGED funcVars
    /\ UNCHANGED <<sessionVars, ncalls, nchild>>

\* a child nobody waits for any more ends by itself
ChildExit(k) ==
    /\ child[k] = "running"
    /\ \A t \in Tasks : ~(task[t].pc = "communicate" /\ task[t].rd = k)
    /\ child' = Set1(child, k, "exited")
    /\ last' = NoRet
    /\ issued' = NoIssue
    /\ UNCHANGED funcVars
    /\ UNCHANGED <<sessionVars, task, ncalls, nchild>>

----------------------------------------------------------------------------
\* DDCUtil: authenticate, stop_privileged and the routing of _run_async

\* privileged_helper.py lines 28-31: the is_authenticated property
IsAuthenticated(s) == authenticated[s] /\ process[s] # 0

\* a routing that would take any helper there is
RouteMutantAnyHelper(h) == h # 0

\* a routing that would never take the helper
RouteMutantNeverSession(h) == FALSE

\* ddcutil.py line 175: self._helper and self._helper.is_authenticated
ViaSession(h) == h # 0 /\ IsAuthenticated(h)

\* an authenticate that would never find itself authenticated
FacadeMutantNeverAlready(h) == FALSE

\* ddcutil.py line 147: self._helper and self._helper.is_authenticated
AlreadyAuthenticated(h) == h # 0 /\ IsAuthenticated(h)

AuthenticateAlready(h) ==
    [NoRet EXCEPT !.op = "authenticate", !.sess = h, !.how = "return",
                  !.cause = "already", !.val = TRUE]

StopPrivilegedNoHelper ==
    [NoRet EXCEPT !.op = "stop_priv", !.how = "return", !.cause = "stop"]

\* authenticate, ddcutil.py lines 143-151: a new PrivilegedHelper and its
\* start(), whose result is authenticate's
CallAuthenticate(t) ==
    /\ FirstIdle(t)
    /\ ncalls < MaxCalls
    /\ \/ AlreadyAuthenticated(helper)
       \/ nsess < MaxSessions /\ (PkexecMissing(pkexec) \/ nproc < MaxProcs)
    /\ ncalls' = ncalls + 1
    /\ IF AlreadyAuthenticated(helper)
       THEN /\ last' = AuthenticateAlready(helper)
            /\ UNCHANGED <<nsess, helper, task, nproc>>
       ELSE /\ nsess' = nsess + 1
            /\ helper' = nsess + 1
            /\ StartBody(t, nsess + 1, 0)
    /\ issued' = NoIssue
    /\ UNCHANGED funcVars
    /\ UNCHANGED <<pkexec, sessVars, lockVars, pstate, pin, pout, pcur, histVars,
                   directVars>>

\* stop_privileged, ddcutil.py lines 153-157
CallStopPrivileged(t) ==
    /\ FirstIdle(t)
    /\ ncalls < MaxCalls
    /\ ncalls' = ncalls + 1
    /\ IF helper = 0
       THEN /\ last' = StopPrivilegedNoHelper
            /\ UNCHANGED <<helper, task, sessVars, pin, terminated>>
       ELSE /\ StopFrom(t, helper, "stop_priv", 0, process[helper],
                        authenticated[helper], pin, terminated)
            /\ helper' = IF task'[t].pc = "idle"
                         THEN AfterStop("stop_priv", last'.how)
                         ELSE helper
    /\ issued' = NoIssue
    /\ UNCHANGED funcVars
    /\ UNCHANGED <<pkexec, nsess, lockVars, pstate, pout, pcur, nproc, ncmds, pending,
                   lastw, timedOut, closedNow, directVars>>

\* _run_async, ddcutil.py lines 170-185, for detect_monitors, get_vcp and
\* get_vcp_multiple, set_vcp, get_capabilities (lines 208, 272, 289, 341, 402)
CallExecute(t, w) ==
    /\ FirstIdle(t)
    /\ ncalls < MaxCalls
    /\ ncalls' = ncalls + 1
    /\ IF ViaSession(helper)
       THEN \* line 176
            /\ issued' = [what |-> w, route |-> "session"]
            /\ RunBody(t, helper)
            /\ UNCHANGED <<pstate, pout, pcur, nproc, timedOut, closedNow, directVars>>
       ELSE \* lines 179-185
            /\ issued' = [what |-> w, route |-> "direct"]
            /\ nchild' = nchild + 1
            /\ task' = Set1(task, t, Launching(nchild + 1))
            /\ last' = NoRet
            /\ UNCHANGED <<sessVars, lockVars, procVars, histVars, child>>
    /\ UNCHANGED <<pkexec, nsess, helper>>
    /\ UNCHANGED funcVars

----------------------------------------------------------------------------
\* The session's API under concurrent callers: one PrivilegedHelper object

Construction ==
    /\ process = [s \in Sessions |-> 0]
    /\ authenticated = [s \in Sessions |-> FALSE]
    /\ lockOwner = [s \in Sessions |-> 0]
    /\ lockWaiters = [s \in Sessions |-> <<>>]
    /\ task = [t \in Tasks |-> IdleTask]
    /\ last = NoRet
    /\ pstate = [p \in Procs |-> "none"]
    /\ pin = [p \in Procs |-> <<>>]
    /\ pout = [p \in Procs |-> <<>>]
    /\ pcur = [p \in Procs |-> NoCmd]
    /\ nproc = 0
    /\ ncalls = 0
    /\ ncmds = 0
    /\ pending = [p \in Procs |-> {}]
    /\ lastw = [s \in Sessions |-> 0]
    /\ timedOut = [s \in Sessions |-> FALSE]
    /\ terminated = [s \in Sessions |-> "no"]
    /\ closedNow = [s \in Sessions |-> FALSE]
    /\ helper = 0
    /\ issued = NoIssue
    /\ child = [k \in Children |-> "none"]
    /\ nchild = 0

\* no function is run on its own
NoFunction ==
    /\ text = <<>>
    /\ cursor = 0
    /\ work = <<>>
    /\ result = NoResult

\* one PrivilegedHelper has been constructed
Init == Construction /\ pkexec \in BOOLEAN /\ nsess = 1 /\ NoFunction

Next ==
    \/ \E t \in Tasks, s \in Sessions : CallRun(t, s)
    \/ \E t \in Tasks, s \in Sessions : CallStart(t, s)
    \/ \E t \in Tasks, s \in Sessions : CallStop(t, s)
    \/ \E t \in Tasks : LockResume(t)
    \/ \E t \in Tasks : ReadAvail(t)
    \/ \E t \in Tasks : ReadEof(t)
    \/ \E t \in Tasks : ReadTimeout(t)
    \/ \E t \in Tasks : SpawnDone(t)
    \/ \E t \in Tasks : SpawnFail(t)
    \/ \E t \in Tasks : StopExited(t)
    \/ \E t \in Tasks : StopTimeout(t)
    \/ \E p \in Procs : ShellRead(p)
    \/ \E p \in Procs : ShellEmit(p)
    \/ \E p \in Procs : ProcDie(p)

Spec == Init /\ [][Next]_vars

\* The direct transport under concurrent callers: no session
NextDirect ==
    \/ \E t \in Tasks : CallDirect(t)
    \/ \E t \in Tasks : ExecDone(t)
    \/ \E t \in Tasks : ExecFail(t)
    \/ \E t \in Tasks : CommDone(t)
    \/ \E t \in Tasks : CommTimeout(t)
    \/ \E k \in Children : ChildExit(k)

SpecDirect == Init /\ [][NextDirect]_vars

\* The facade under concurrent callers: no PrivilegedHelper to begin with
InitFacade == Construction /\ pkexec \in BOOLEAN /\ nsess = 0 /\ NoFunction

NextFacade ==
    \/ \E t \in Tasks : CallAuthenticate(t)
    \/ \E t \in Tasks : CallStopPrivileged(t)
    \/ \E t \in Tasks, w \in FacadeOps : CallExecute(t, w)
    \/ \E t \in Tasks : LockResume(t)
    \/ \E t \in Tasks : ReadAvail(t)
    \/ \E t \in Tasks : ReadEof(t)
    \/ \E t \in Tasks : ReadTimeout(t)
    \/ \E t \in Tasks : SpawnDone(t)
    \/ \E t \in Tasks : SpawnFail(t)
    \/ \E t \in Tasks : StopExited(t)
    \/ \E t \in Tasks : StopTimeout(t)
    \/ \E p \in Procs : ShellRead(p)
    \/ \E p \in Procs : ShellEmit(p)
    \/ \E p \in Procs : ProcDie(p)
    \/ \E t \in Tasks : ExecDone(t)
    \/ \E t \in Tasks : ExecFail(t)
    \/ \E t \in Tasks : CommDone(t)
    \/ \E t \in Tasks : CommTimeout(t)
    \/ \E k \in Children : ChildExit(k)

SpecFacade == InitFacade /\ [][NextFacade]_vars

----------------------------------------------------------------------------
\* Properties of the session and of the direct transport

\* the step taken is the timeout branch of a run_ddcutil call of task t
RunTimedOut(t) ==
    /\ task[t].pc = "read"
    /\ task[t].op = "run"
    /\ task'[t].pc = "idle"
    /\ last'.cause = "timeout"

\* the step taken belongs to a start() call on session s
StartStep(s) ==
    \E t \in Tasks : /\ task'[t] # task[t]
                     /\ \/ task[t].op = "start" /\ task[t].sess = s
                        \/ task'[t].op = "start" /\ task'[t].sess = s

\* C1: commands are exclusive on a shell: a shell never holds two command
\* lines whose marker lines have not been consumed, whatever the outcome of
\* the first call was (marker, timeout or end of stream).
C1_OneCommandInFlight ==
    \A p \in Procs : Cardinality(pending[p]) <= 1

\* C2: once a run() call on a session has timed out, a later run() that ends
\* on a marker returns only the output lines of its own command and the exit
\* status of its own marker line.
C2_OwnResponseAfterTimeout ==
    (last.op = "run" /\ last.cause = "marker" /\ timedOut[last.sess])
        => /\ last.trailer = last.cmd
           /\ \A i \in 1..Len(last.out) : last.out[i].cmd = last.cmd

\* C3: a run() whose read loop meets the end of the stream before the marker
\* line fails: it does not hand back a normal result with exit status 0.
C3_EofIsFailure ==
    (last.op = "run" /\ last.cause = "eof")
        => ~(last.how = "return" /\ last.rc = 0)

C6_TimeoutLeavesSessionOpen ==
    [][\A t \in Tasks :
          RunTimedOut(t)
              => /\ process' = process
                 /\ authenticated' = authenticated
                 /\ pstate' = pstate
                 /\ lockOwner'[task[t].sess] = 0]_vars

\* C6 witness: a run() has just timed out and the session still has its
\* running shell and is authenticated.
C6_OpenAfterTimeout ==
    /\ last.op = "run" /\ last.cause = "timeout"
    /\ process[last.sess] # 0
    /\ pstate[process[last.sess]] = "running"
    /\ authenticated[last.sess]
    /\ lockOwner[last.sess] = 0

\* C7: a call that exceeded its timeout fails with an error on either
\* transport: it never hands back a normal result.
C7_TimeoutRaises ==
    last.cause = "timeout" => last.how = "raise"

\* C8: when a direct call times out, its ddcutil child has been killed: it is
\* not left running.
C8_TimeoutKillsChild ==
    (last.op = "direct" /\ last.cause = "timeout")
        => child[last.kid] # "running"

\* C9: every change of a session's process handle or authenticated flag is
\* made by the task that holds the session's lock.
C9_MutationUnderLock ==
    [][\A s \in Sessions :
          (process'[s] # process[s] \/ authenticated'[s] # authenticated[s])
              => /\ lockOwner[s] # 0
                 /\ task'[lockOwner[s]] # task[lockOwner[s]]]_vars

\* C10: callers queued on the lock are served in arrival order: command
\* lines are written in the order in which their calls reached the lock, and
\* no caller still waiting arrived before the one whose line is written.
C10_ServedInArrivalOrder ==
    [][\A s \in Sessions :
          lastw'[s] # lastw[s]
              => /\ lastw'[s] > lastw[s]
                 /\ \A u \in Tasks :
                       (task'[u].pc = "wait_lock" /\ task'[u].sess = s)
                           => task'[u].cmd > lastw'[s]]_vars

\* C10 witness: the command line of a run() that found another run() already
\* queued on the lock has been written (one shell only, so that the lock was
\* taken by its start's probe and by run() calls).
C10_QueuedServed ==
    \E t \in Tasks :
        /\ task[t].pc = "read" /\ task[t].op = "run"
        /\ task[t].ahead >= 1
        /\ lastw[task[t].sess] = task[t].cmd
        /\ nproc = 1

\* the step taken is a run_ddcutil call made on session s
RunCalled(s) ==
    /\ ncalls' = ncalls + 1
    /\ \/ last'.op = "run" /\ last'.sess = s
       \/ \E t \in Tasks : /\ task[t].pc = "idle"
                            /\ task'[t].op = "run" /\ task'[t].sess = s

\* C11: a run_ddcutil call made while the session has no process or is not
\* authenticated (never started, authenticating, stopped, pipe closed) is
\* rejected at once with the not-authenticated error, takes no lock and
\* writes nothing to any shell.
C11_NotAuthenticatedRejected ==
    [][\A s \in Sessions :
          (RunCalled(s) /\ ~(process[s] # 0 /\ authenticated[s]))
              => /\ last' = RaiseNotAuthenticated(s, 0, "run")
                 /\ pin' = pin /\ lastw' = lastw /\ pending' = pending
                 /\ lockOwner' = lockOwner /\ lockWaiters' = lockWaiters
                 /\ task' = task]_vars

\* C11 witness: a run_ddcutil call has just been rejected while the session
\* was authenticating: it has a running shell and the flag is still false.
C11_RejectedWhileAuthenticating ==
    /\ last.op = "run" /\ last.cause = "not_authenticated" /\ last.cmd = 0
    /\ process[last.sess] # 0
    /\ pstate[process[last.sess]] = "running"
    /\ ~authenticated[last.sess]

\* C12: a start() that has run its probe ends in one of two ways: it reports
\* success and the session has a process and is authenticated, or it reports
\* failure and the session has no process and is not authenticated.
C12_StartAllOrNothing ==
    (last.op = "start" /\ last.cause \in {"probe_ok", "probe_failed", "exception"})
        => IF last.val
           THEN process[last.sess] # 0 /\ authenticated[last.sess]
           ELSE process[last.sess] = 0 /\ ~authenticated[last.sess]

\* C14: stop() never fails: from every state it returns normally and leaves
\* the session with no process handle and not authenticated.
C14_StopTotal ==
    last.op = "stop"
        => /\ last.how = "return"
           /\ process[last.sess] = 0
           /\ ~authenticated[last.sess]

\* the facade's session is Authenticated: it has a process and its flag is set
FacadeAuthenticated ==
    /\ helper # 0
    /\ process[helper] # 0
    /\ authenticated[helper]

\* the step taken is a call of DDCUtil.authenticate
AuthenticateCalled ==
    /\ ncalls' = ncalls + 1
    /\ \/ last'.op \in {"authenticate", "start"}
       \/ \E t \in Tasks : task[t].pc = "idle" /\ task'[t].op = "start"

\* C13: without pkexec no shell is ever spawned, every session stays without
\* process and not authenticated, start() - and so authenticate - returns
\* False without raising, and every operation is routed direct.
C13_NoPkexecNoSession ==
    ~pkexec
        => /\ nproc = 0
           /\ \A s \in Sessions : process[s] = 0 /\ ~authenticated[s]
           /\ last.op = "start"
                  => last.how = "return" /\ ~last.val /\ last.cause = "no_pkexec"
           /\ last.how # "raise" \/ last.op = "direct"
           /\ issued.route # "session"

\* C13 witness: without pkexec authenticate has been called (a helper object
\* exists) and a later operation has just been routed direct.
C13_DirectAfterFailedAuthenticate ==
    /\ ~pkexec
    /\ helper # 0
    /\ issued.route = "direct"

\* C16: an operation of the facade goes through the privileged session if
\* and only if the facade's session is Authenticated at the moment of the
\* call (it then is a run_ddcutil on that session); otherwise it spawns a
\* direct child.
C16_RoutedBySessionState ==
    [][issued'.what # "none"
          => /\ issued'.route = "session" <=> FacadeAuthenticated
             /\ issued'.route = "session"
                    => \/ last'.op = "run" /\ last'.sess = helper
                       \/ \E t \in Tasks : /\ task[t].pc = "idle"
                                           /\ task'[t].op = "run"
                                           /\ task'[t].sess = helper
             /\ issued'.route = "direct"
                    => /\ nchild' = nchild + 1
                       /\ \E t \in Tasks : /\ task[t].pc = "idle"
                                           /\ task'[t].op = "direct"
                       /\ lastw' = lastw /\ pin' = pin]_vars

\* C16 witness: the pipe of the facade's session has closed and an operation
\* has just been routed direct.
C16_DirectAfterClosure ==
    /\ helper # 0
    /\ closedNow[helper]
    /\ issued.route = "direct"

\* C17 (as stated): monitor detection never goes through the privileged
\* session.
C17_DetectAlwaysDirect ==
    issued.what = "detect" => issued.route = "direct"

\* C17 (amended): monitor detection is routed like every other operation:
\* through the privileged session exactly when the facade's session is
\* Authenticated at the moment of the call, direct otherwise.
C17_DetectRoutedLikeAll ==
    [][issued'.what = "detect"
          => (issued'.route = "session" <=> FacadeAuthenticated)]_vars

\* C17 witness: a detection has just been sent through the session.
C17_DetectViaSession ==
    /\ issued.what = "detect"
    /\ issued.route = "session"
    /\ FacadeAuthenticated

\* C18: authenticate called while the facade's session is Authenticated
\* returns True at once: no new PrivilegedHelper, no process spawned, no
\* probe written, nothing else changed.
C18_AuthenticateIdempotent ==
    [][(AuthenticateCalled /\ FacadeAuthenticated)
          => /\ last' = AuthenticateAlready(helper)
             /\ UNCHANGED <<nsess, helper, nproc, process, authenticated, task,
                            pin, lastw, ncmds, lockOwner, lockWaiters>>]_vars

\* C18 witness: authenticate has just returned True for a session that was
\* already Authenticated.
C18_AuthenticatedAgain ==
    /\ last.op = "authenticate" /\ last.cause = "already" /\ last.val
    /\ FacadeAuthenticated

-----------------------------------------------------------------------------
\* The framing of one command, _run_command lines 105-144, run on its own
\* against a process whose whole output is given

\* bound on the lines the process emits before its stdout ends
MaxLines == 3

\* _run_command line 105: marker = "___END_CMD___"
marker == <<"_", "_", "_", "E", "N", "D", "_", "C", "M", "D", "_", "_", "_">>

\* the commands run_ddcutil line 93 builds: "ddcutil " + the joined arguments
Commands == {<<"ddcutil", "detect">>, <<"ddcutil", "getvcp", "10">>}

\* _run_command line 106: full_cmd = f'{command}; echo "{marker}$?";\n'
full_cmd(command) ==
    [command |-> command, separator |-> "; ",
     trailer |-> <<"echo \"">> \o marker \o <<"$?\";">>, newlines |-> 1]

\* str.startswith
StartsWith(str, prefix) ==
    /\ Len(str) >= Len(prefix)
    /\ SubSeq(str, 1, Len(prefix)) = prefix

\* str.rstrip('\n') of line 128
RECURSIVE RStripNewline(_)
RStripNewline(str) ==
    IF str # <<>> /\ str[Len(str)] = "\n"
    THEN RStripNewline(SubSeq(str, 1, Len(str) - 1))
    ELSE str

\* the whitespace int() and str.strip() skip at both ends
Whitespace == {" ", "\t", "\n", "\r"}

RECURSIVE LStrip(_)
LStrip(str) ==
    IF str # <<>> /\ str[1] \in Whitespace THEN LStrip(Tail(str)) ELSE str

RECURSIVE RStrip(_)
RStrip(str) ==
    IF str # <<>> /\ str[Len(str)] \in Whitespace
    THEN RStrip(SubSeq(str, 1, Len(str) - 1))
    ELSE str

Strip(str) == LStrip(RStrip(str))

DecimalDigits == {"0", "1", "2", "3", "4", "5", "6", "7", "8", "9"}

DigitValue(c) ==
    CASE c = "0" -> 0 [] c = "1" -> 1 [] c = "2" -> 2 [] c = "3" -> 3
      [] c = "4" -> 4 [] c = "5" -> 5 [] c = "6" -> 6 [] c = "7" -> 7
      [] c = "8" -> 8 [] c = "9" -> 9

RECURSIVE DigitsValue(_)
DigitsValue(str) ==
    IF str = <<>> THEN 0
    ELSE 10 * DigitsValue(SubSeq(str, 1, Len(str) - 1)) + DigitValue(str[Len(str)])

\* the text after an optional sign
Unsigned(str) ==
    IF str # <<>> /\ str[1] \in {"+", "-"} THEN Tail(str) ELSE str

\* int(str) of line 133 does not raise ValueError
IsInt(str) ==
    LET u == Unsigned(Strip(str))
    IN  /\ u # <<>>
        /\ \A i \in 1..Len(u) : u[i] \in DecimalDigits

\* int(str) of line 133 where it does not raise
IntOf(str) ==
    LET s == Strip(str)
        v == DigitsValue(Unsigned(s))
    IN  IF s[1] = "-" THEN 0 - v ELSE v

\* lines 132-135: int(line_str[len(marker):]), -1 on ValueError
FramingMutantDefaultZero(line_str) ==
    LET rest == SubSeq(line_str, Len(marker) + 1, Len(line_str))
    IN  IF IsInt(rest) THEN IntOf(rest) ELSE 0

ReturnCodeOf(line_str) ==
    LET rest == SubSeq(line_str, Len(marker) + 1, Len(line_str))
    IN  IF IsInt(rest) THEN IntOf(rest) ELSE 0 - 1

\* "\n".join(output_lines) of line 143
RECURSIVE JoinLines(_)
JoinLines(lines) ==
    IF lines = <<>> THEN <<>>
    ELSE IF Len(lines) = 1 THEN lines[1]
    ELSE lines[1] \o <<"\n">> \o JoinLines(Tail(lines))

\* what a line of the process's output may start and end with
LineHeads == {<<>>, marker, <<"h", "i">>, <<" ">> \o marker}
LineTails == {<<>>, <<"0">>, <<"1", "2">>, <<"-", "1">>, <<"x">>, <<"2", " ">>}

\* the lines readline() hands back, each with its terminator
RawLines == {h \o t \o <<"\n">> : h \in LineHeads, t \in LineTails}

RECURSIVE SeqsUpTo(_, _)
SeqsUpTo(S, n) ==
    IF n = 0 THEN {<<>>}
    ELSE LET shorter == SeqsUpTo(S, n - 1)
         IN  shorter \cup {Append(q, x) : q \in {r \in shorter : Len(r) = n - 1}, x \in S}

\* lines 113-114 and the state before line 109
InitFraming ==
    /\ Construction /\ pkexec = TRUE /\ nsess = 0
    /\ text \in {[command |-> c, stream |-> q] :
                    c \in Commands, q \in SeqsUpTo(RawLines, MaxLines)}
    /\ cursor = 0
    /\ work = [written |-> <<>>, output_lines |-> <<>>, return_code |-> 0]
    /\ result = NoResult

\* lines 109-110: the command line is written and drained
FramingWrite ==
    /\ cursor = 0
    /\ result = NoResult
    /\ work' = [work EXCEPT !.written = Append(@, full_cmd(text.command))]
    /\ cursor' = 1
    /\ UNCHANGED <<text, result>>
    /\ UNCHANGED transportVars

\* lines 118-138, a line that does not begin with the marker
FramingReadOutput ==
    /\ cursor \in 1..Len(text.stream)
    /\ result = NoResult
    /\ LET line_str == RStripNewline(text.stream[cursor])
       IN  /\ ~StartsWith(line_str, marker)
           /\ work' = [work EXCEPT !.output_lines = Append(@, line_str)]
    /\ cursor' = cursor + 1
    /\ UNCHANGED <<text, result>>
    /\ UNCHANGED transportVars

\* lines 118-136 and 143-144, the line that begins with the marker
FramingReadMarker ==
    /\ cursor \in 1..Len(text.stream)
    /\ result = NoResult
    /\ LET line_str == RStripNewline(text.stream[cursor])
       IN  /\ StartsWith(line_str, marker)
           /\ work' = [work EXCEPT !.return_code = ReturnCodeOf(line_str)]
           /\ result' = [how |-> "return", cause |-> "marker",
                         stdout |-> JoinLines(work.output_lines), stderr |-> "",
                         return_code |-> ReturnCodeOf(line_str)]
    /\ cursor' = cursor + 1
    /\ UNCHANGED text
    /\ UNCHANGED transportVars

\* lines 122-126 and 143-144, readline() hands back b"": the stdout has ended
FramingReadEof ==
    /\ cursor = Len(text.stream) + 1
    /\ result = NoResult
    /\ result' = [how |-> "return", cause |-> "eof",
                  stdout |-> JoinLines(work.output_lines), stderr |-> "",
                  return_code |-> work.return_code]
    /\ UNCHANGED <<text, cursor, work>>
    /\ UNCHANGED transportVars

NextFraming ==
    \/ FramingWrite
    \/ FramingReadOutput
    \/ FramingReadMarker
    \/ FramingReadEof

SpecFraming == InitFraming /\ [][NextFraming]_vars

\* the lines of a stream as the claim reads them, without their terminators
Emitted == [i \in 1..Len(text.stream) |-> RStripNewline(text.stream[i])]

\* the first line of the stream that begins with the marker, 0 if none does
FirstMarkerLine ==
    LET hits == {i \in 1..Len(text.stream) : StartsWith(Emitted[i], marker)}
    IN  IF hits = {} THEN 0 ELSE CHOOSE i \in hits : \A j \in hits : i <= j

\* C15: when the output is lines L1..Ln followed by a line that begins with the
\* marker and ends in the text s, the call has written exactly one input line
\* (the command, a separator, the marker-echo trailer) and returns L1..Ln
\* joined in order as stdout, with the exit status int(s), or -1 when s is not
\* an integer.
C15_FramedResult ==
    (result # NoResult /\ FirstMarkerLine # 0) =>
        LET n == FirstMarkerLine - 1
            s == SubSeq(Emitted[n + 1], Len(marker) + 1, Len(Emitted[n + 1]))
        IN  /\ Len(work.written) = 1
            /\ work.written[1].command = text.command
            /\ work.written[1].separator = "; "
            /\ work.written[1].trailer = <<"echo \"">> \o marker \o <<"$?\";">>
            /\ work.written[1].newlines = 1
            /\ result.how = "return"
            /\ result.stdout = JoinLines(SubSeq(Emitted, 1, n))
            /\ result.return_code = (IF IsInt(s) THEN IntOf(s) ELSE 0 - 1)

\* two lines then a marker line whose remainder is not an integer
C15_UnparsableStatus ==
    /\ result # NoResult
    /\ FirstMarkerLine = 3
    /\ result.return_code = 0 - 1
    /\ ~IsInt(SubSeq(Emitted[3], Len(marker) + 1, Len(Emitted[3])))
    /\ Len(work.output_lines) = 2
    /\ work.output_lines[1] # work.output_lines[2]

-----------------------------------------------------------------------------
\* The permission test of _run_async, ddcutil.py lines 175-202, run on its own
\* against a command whose exit status and stderr are given

\* bound on the pieces a stderr text is put together from
MaxPieces == 3

\* pieces of what ddcutil may leave on its stderr
StderrPieces ==
    {<<"P", "e", "r", "m", "i">>, <<"S", "S", "I", "O", "N">>, <<"s", "s", "i", "o", "n">>,
     <<"a", "c", "c">>, <<"E", "S", "S">>, <<" ", "d", "e", "n", "i", "e", "d", " ">>}

RECURSIVE Flatten(_)
Flatten(pieces) ==
    IF pieces = <<>> THEN <<>> ELSE Head(pieces) \o Flatten(Tail(pieces))

\* the exit statuses drawn
ExitStatuses == {0, 1, 255}

\* a command that ended with some exit status and stderr, on either transport
InitPermission ==
    /\ Construction /\ pkexec = TRUE /\ nsess = 0
    /\ text \in {[transport |-> tr, returncode |-> rc, stderr |-> Flatten(q)] :
                    tr \in {"direct", "session"}, rc \in ExitStatuses,
                    q \in SeqsUpTo(StderrPieces, MaxPieces)}
    /\ cursor = 0
    /\ work = <<>>
    /\ result = NoResult

\* ddcutil.py lines 189-200: the direct transport raises PermissionError
DirectRaisesPermission ==
    /\ result = NoResult
    /\ text.transport = "direct"
    /\ text.returncode # 0
    /\ MentionsPermission(text.stderr)
    /\ result' = [how |-> "raise", cause |-> "PermissionError"]
    /\ cursor' = 1
    /\ UNCHANGED <<text, work>>
    /\ UNCHANGED transportVars

\* ddcutil.py lines 189-202: the direct transport returns the three values
DirectReturns ==
    /\ result = NoResult
    /\ text.transport = "direct"
    /\ ~(text.returncode # 0 /\ MentionsPermission(text.stderr))
    /\ result' = [how |-> "return", cause |-> "exit", stderr |-> text.stderr,
                  return_code |-> text.returncode]
    /\ cursor' = 1
    /\ UNCHANGED <<text, work>>
    /\ UNCHANGED transportVars

\* ddcutil.py line 176 and privileged_helper.py line 144: the session hands
\* back an empty stderr whatever the command wrote, and _run_async returns
\* that unexamined
SessionReturns ==
    /\ result = NoResult
    /\ text.transport = "session"
    /\ result' = [how |-> "return", cause |-> "marker", stderr |-> <<>>,
                  return_code |-> text.returncode]
    /\ cursor' = 1
    /\ UNCHANGED <<text, work>>
    /\ UNCHANGED transportVars

NextPermission ==
    \/ DirectRaisesPermission
    \/ DirectReturns
    \/ SessionReturns

SpecPermission == InitPermission /\ [][NextPermission]_vars

\* word occurs in str when the case of letters is disregarded
OccursAnyCase(str, word) ==
    \E i \in 1..(Len(str) - Len(word) + 1) :
        \A j \in 1..Len(word) : LowerChar(str[i + j - 1]) = word[j]

\* the stderr the transport call has: its child's on the direct transport,
\* always empty on the session transport
TransportStderr == IF text.transport = "session" THEN <<>> ELSE text.stderr

-----------------------------------------------------------------------------
\* DDCUtil._parse_detect_output, ddcutil.py lines 213-257, run on its own on a
\* given output of "ddcutil detect"

\* bound on the lines of one detection output
MaxDetectLines == 4

\* the lines a detection output is made of
DetectLines ==
    {<<"D", "i", "s", "p", "l", "a", "y", " ", "1">>,
     <<" ", "D", "i", "s", "p", "l", "a", "y", " ", " ", "2", " ">>,
     <<>>,
     <<"I", "2", "C", " ", "b", "u", "s", ":", " ", " ", "/", "d", "e", "v", "/", "i", "2", "c", "-", "4">>,
     <<"I", "2", "C", " ", "b", "u", "s", ":", " ", "/", "d", "e", "v", "/", "i", "2", "c", "-", "1", "7">>,
     <<"M", "f", "g", " ", "i", "d", ":", " ", "D", "E", "L">>,
     <<"M", "a", "n", "u", "f", "a", "c", "t", "u", "r", "e", "r", ":", " ", "A", "C", "R">>,
     <<"M", "o", "d", "e", "l", ":", " ", "U", ":", "2">>,
     <<"S", "N", ":", " ", "9">>,
     <<"E", "D", "I", "D", ":", " ", "0", "f">>,
     <<"I", "n", "v", "a", "l", "i", "d", " ", "d", "i", "s", "p", "l", "a", "y">>,
     <<"D", "i", "s", "p", "l", "a", "y">>,
     <<"I", "2", "C", " ", "b", "u", "s", ":", " ", "n", "o", "n", "e">>}

\* the literals of lines 224, 228, 238, 240 and 243-250
DisplayWord == <<"D", "i", "s", "p", "l", "a", "y">>
KeyI2cBus == <<"i", "2", "c", " ", "b", "u", "s">>
DevI2c == <<"/", "d", "e", "v", "/", "i", "2", "c", "-">>
KeyManufacturer == <<"m", "a", "n", "u", "f", "a", "c", "t", "u", "r", "e", "r">>
KeyMfg == <<"m", "f", "g">>
KeyModel == <<"m", "o", "d", "e", "l">>
KeySerial == <<"s", "e", "r", "i", "a", "l">>
KeySn == <<"s", "n">>
KeyEdid == <<"e", "d", "i", "d">>
Unknown == <<"U", "n", "k", "n", "o", "w", "n">>

\* the longest prefix of str made of characters of S
RECURSIVE TakeWhile(_, _)
TakeWhile(str, S) ==
    IF str # <<>> /\ str[1] \in S THEN <<str[1]>> \o TakeWhile(Tail(str), S) ELSE <<>>

\* str[n:]
From(str, n) == SubSeq(str, n + 1, Len(str))

\* the position of the first c in str, 0 if there is none
IndexOf(str, c) ==
    LET hits == {i \in 1..Len(str) : str[i] = c}
    IN  IF hits = {} THEN 0 ELSE CHOOSE i \in hits : \A j \in hits : i <= j

\* line 228: group 1 of re.match(r"Display\s+(\d+)", line), <<>> without a match
HeaderIndex(line) ==
    LET rest == From(line, Len(DisplayWord))
        blanks == TakeWhile(rest, Whitespace)
        digits == TakeWhile(From(rest, Len(blanks)), DecimalDigits)
    IN  IF StartsWith(line, DisplayWord) /\ blanks # <<>> THEN digits ELSE <<>>

\* line 240: group 1 of re.search(r"/dev/i2c-(\d+)", value), <<>> without a match
BusIndex(value) ==
    LET hits == {i \in 1..Len(value) :
                    /\ StartsWith(From(value, i - 1), DevI2c)
                    /\ TakeWhile(From(value, i - 1 + Len(DevI2c)), DecimalDigits) # <<>>}
    IN  IF hits = {} THEN <<>>
        ELSE LET i == CHOOSE h \in hits : \A j \in hits : h <= j
             IN  TakeWhile(From(value, i - 1 + Len(DevI2c)), DecimalDigits)

\* lines 235-237: key, value = line.split(":", 1), key lowered, both stripped
KeyOf(line) == Lower(Strip(SubSeq(line, 1, IndexOf(line, ":") - 1)))
ValueOf(line) == Strip(From(line, IndexOf(line, ":")))

\* lines 238-250: the entry of current_monitor a key goes to, "none" for a key
\* that is not recognized
FieldOf(key) ==
    IF Contains(key, KeyI2cBus) \/ key = KeyI2cBus THEN "i2c_bus"
    ELSE IF key = KeyManufacturer \/ Contains(key, KeyMfg) THEN "manufacturer"
    ELSE IF key = KeyModel THEN "model"
    ELSE IF key = KeySerial \/ Contains(key, KeySn) THEN "serial"
    ELSE IF key = KeyEdid THEN "edid"
    ELSE "none"

\* current_monitor[k] = v
DetectMutantFirstWins(d, k, v) ==
    IF k \in DOMAIN d THEN d ELSE (k :> v) @@ d

SetItem(d, k, v) == (k :> v) @@ d

\* data.get(k, default)
Get(d, k, default) == IF k \in DOMAIN d THEN d[k] ELSE default

\* current_monitor is None
None == <<>>

\* the truth value of a dict or None
Truthy(d) == DOMAIN d # {}

\* lines 259-268
create_monitor_info(data) ==
    [display_number |-> Get(data, "display_number", 0),
     i2c_bus |-> Get(data, "i2c_bus", 0 - 1),
     manufacturer |-> Get(data, "manufacturer", Unknown),
     model |-> Get(data, "model", Unknown),
     serial |-> Get(data, "serial", <<>>),
     edid |-> Get(data, "edid", <<>>)]

\* lines 225-226 and 253-254: the pending monitor is appended
Flushed(monitors, current_monitor) ==
    IF Truthy(current_monitor)
    THEN Append(monitors, create_monitor_info(current_monitor))
    ELSE monitors

\* lines 238-250: the entry a recognized line sets, current_monitor unchanged
\* for a key that is not recognized or a bus value without a device path
WithField(current_monitor, line) ==
    LET f == FieldOf(KeyOf(line))
        value == ValueOf(line)
    IN  IF f = "none" THEN current_monitor
        ELSE IF f = "i2c_bus"
        THEN IF BusIndex(value) # <<>>
             THEN SetItem(current_monitor, "i2c_bus", DigitsValue(BusIndex(value)))
             ELSE current_monitor
        ELSE SetItem(current_monitor, f, value)

\* lines 215-216 and the output handed in
InitDetect ==
    /\ Construction /\ pkexec = TRUE /\ nsess = 0
    /\ text \in SeqsUpTo(DetectLines, MaxDetectLines)
    /\ cursor = 1
    /\ work = [monitors |-> <<>>, current_monitor |-> None]
    /\ result = NoResult

\* line 219: the line the loop is at
DetectLine == Strip(text[cursor])

\* lines 218-221: an empty line is passed over
DetectBlank ==
    /\ result = NoResult
    /\ cursor \in 1..Len(text)
    /\ DetectLine = <<>>
    /\ cursor' = cursor + 1
    /\ UNCHANGED <<text, work, result>>
    /\ UNCHANGED transportVars

\* lines 224-230: a line that starts with "Display" and carries an index
DetectHeader ==
    /\ result = NoResult
    /\ cursor \in 1..Len(text)
    /\ StartsWith(DetectLine, DisplayWord)
    /\ HeaderIndex(DetectLine) # <<>>
    /\ work' = [monitors |-> Flushed(work.monitors, work.current_monitor),
                current_monitor |->
                    SetItem(None, "display_number", DigitsValue(HeaderIndex(DetectLine)))]
    /\ cursor' = cursor + 1
    /\ UNCHANGED <<text, result>>
    /\ UNCHANGED transportVars

\* lines 224-229: a line that starts with "Display" and carries no index; the
\* pending monitor is appended and stays pending
DetectHeaderNoIndex ==
    /\ result = NoResult
    /\ cursor \in 1..Len(text)
    /\ StartsWith(DetectLine, DisplayWord)
    /\ HeaderIndex(DetectLine) = <<>>
    /\ work' = [work EXCEPT !.monitors = Flushed(work.monitors, work.current_monitor)]
    /\ cursor' = cursor + 1
    /\ UNCHANGED <<text, result>>
    /\ UNCHANGED transportVars

\* lines 232-250: a "key: value" line while a monitor is pending
DetectField ==
    /\ result = NoResult
    /\ cursor \in 1..Len(text)
    /\ DetectLine # <<>>
    /\ ~StartsWith(DetectLine, DisplayWord)
    /\ Truthy(work.current_monitor)
    /\ IndexOf(DetectLine, ":") # 0
    /\ work' = [work EXCEPT !.current_monitor = WithField(@, DetectLine)]
    /\ cursor' = cursor + 1
    /\ UNCHANGED <<text, result>>
    /\ UNCHANGED transportVars

\* lines 232-234: any other line, before the first header or without a colon
DetectSkip ==
    /\ result = NoResult
    /\ cursor \in 1..Len(text)
    /\ DetectLine # <<>>
    /\ ~StartsWith(DetectLine, DisplayWord)
    /\ ~Truthy(work.current_monitor) \/ IndexOf(DetectLine, ":") = 0
    /\ cursor' = cursor + 1
    /\ UNCHANGED <<text, work, result>>
    /\ UNCHANGED transportVars

\* lines 252-256: the last pending monitor is appended and the list returned
DetectReturn ==
    /\ result = NoResult
    /\ cursor = Len(text) + 1
    /\ work' = [work EXCEPT !.monitors = Flushed(work.monitors, work.current_monitor)]
    /\ result' = [how |-> "return",
                  monitors |-> Flushed(work.monitors, work.current_monitor)]
    /\ UNCHANGED <<text, cursor>>
    /\ UNCHANGED transportVars

NextDetect ==
    \/ DetectBlank
    \/ DetectHeader
    \/ DetectHeaderNoIndex
    \/ DetectField
    \/ DetectSkip
    \/ DetectReturn

SpecDetect == InitDetect /\ [][NextDetect]_vars

\* the lines of the output as the parser sees them
Stripped == [i \in 1..Len(text) |-> Strip(text[i])]

\* the positions of the lines that start with "Display", in order
RECURSIVE HeadersFrom(_)
HeadersFrom(i) ==
    IF i > Len(text) THEN <<>>
    ELSE IF StartsWith(Stripped[i], DisplayWord) THEN <<i>> \o HeadersFrom(i + 1)
    ELSE HeadersFrom(i + 1)

Headers == HeadersFrom(1)

\* every line that starts with "Display" carries a display index, and every
\* bus line carries a device path
WellFormed ==
    /\ \A k \in 1..Len(Headers) : HeaderIndex(Stripped[Headers[k]]) # <<>>
    /\ \A i \in 1..Len(text) :
            (IndexOf(Stripped[i], ":") # 0 /\ FieldOf(KeyOf(Stripped[i])) = "i2c_bus")
                => BusIndex(ValueOf(Stripped[i])) # <<>>

\* the lines for field f between header k and the next header
FieldLines(k, f) ==
    LET from == Headers[k] + 1
        upto == IF k < Len(Headers) THEN Headers[k + 1] - 1 ELSE Len(text)
    IN  {i \in from..upto : /\ IndexOf(Stripped[i], ":") # 0
                             /\ FieldOf(KeyOf(Stripped[i])) = f}

\* the value of line i as field f holds it
FieldValue(i, f) ==
    IF f = "i2c_bus" THEN DigitsValue(BusIndex(ValueOf(Stripped[i])))
    ELSE ValueOf(Stripped[i])

Max(S) == CHOOSE x \in S : \A y \in S : y <= x

\* C20: for a well-formed output with N header lines the parser returns N
\* identities in header order, each with the display index of its header, and
\* each recognized field (bus, manufacturer, model, serial, EDID) that occurs
\* between its header and the next holds the value of its last occurrence there.
C20_OneIdentityPerHeader ==
    (result # NoResult /\ WellFormed) =>
        /\ Len(result.monitors) = Len(Headers)
        /\ \A k \in 1..Len(Headers) :
            /\ result.monitors[k].display_number
                    = DigitsValue(HeaderIndex(Stripped[Headers[k]]))
            /\ \A f \in {"i2c_bus", "manufacturer", "model", "serial", "edid"} :
                    FieldLines(k, f) # {} =>
                        result.monitors[k][f] = FieldValue(Max(FieldLines(k, f)), f)

\* two headers, the first followed by two different values for one field
C20_LastValueWins ==
    /\ result # NoResult
    /\ WellFormed
    /\ Len(Headers) = 2
    /\ Len(result.monitors) = 2
    /\ \E f \in {"i2c_bus", "manufacturer"} :
        /\ Cardinality(FieldLines(1, f)) = 2
        /\ \E i, j \in FieldLines(1, f) :
            /\ i < j
            /\ FieldValue(i, f) # FieldValue(j, f)
            /\ result.monitors[1][f] = FieldValue(j, f)

\* C21: a line that is not a well-formed header line (the keyword, then a
\* display index) never adds a record to the list the parser returns.
C21_MalformedAddsNothing ==
    [][(cursor' = cursor + 1 /\ HeaderIndex(DetectLine) = <<>>)
            => work'.monitors = work.monitors]_vars

\* C22: the display numbers in the list one detection pass returns are
\* pairwise distinct.
C22_DisplayNumbersDistinct ==
    result # NoResult =>
        \A i, j \in 1..Len(result.monitors) :
            i # j => result.monitors[i].display_number # result.monitors[j].display_number

-----------------------------------------------------------------------------
\* DDCUtil._parse_getvcp_output_multiple, ddcutil.py lines 292-337, run on its
\* own on a given output of "ddcutil getvcp --terse", and the storing of what
\* it returns in a Monitor (window.py lines 186-187, monitor.py lines 67-69)

\* bound on the lines of one getvcp output
MaxVcpLines == 3

\* the lines a getvcp output is made of
VcpLines ==
    {<<"V", "C", "P", " ", "1", "0", " ", "C", " ", "7", "0", " ", "1", "0", "0">>,
     <<"V", "C", "P", " ", "1", "0", " ", "C", " ", "1", "2", "0", " ", "1", "0", "0">>,
     <<"V", "C", "P", " ", "1", "2", " ", "C", " ", "5", "0">>,
     <<"V", "C", "P", " ", "1", "0", " ", "C", " ", "-", "5", " ", "1", "0", "0">>,
     <<"V", "C", "P", " ", "6", "0", " ", "S", "N", "C", " ", "x", "1", "1">>,
     <<"V", "C", "P", " ", "D", "6", " ", "N", "C", " ", "1", "7", " ", "9">>,
     <<"V", "C", "P", " ", "6", "0", " ", "S", "N", "C", " ", "X", "1", "1">>,
     <<"V", "C", "P", " ", "1", "2", " ", "C", " ", "7", "0", " ", "a", "b", "c">>,
     <<"V", "C", "P", " ", "z", "z", " ", "C", " ", "1", " ", "2">>,
     <<"V", "C", "P", " ", "1", "0", " ", "T", " ", "1", " ", "2">>,
     <<"V", "C", "P", " ", "1", "0", " ", "E", "R", "R">>,
     <<"D", "i", "s", "p", "l", "a", "y", " ", "1">>,
     <<>>,
     <<" ", "V", "C", "P", " ", " ", "1", "2", " ", "C", " ", "0", " ", "0", " ">>}

\* the literals of lines 300, 311, 320 and 323
VCP == <<"V", "C", "P">>
TypeC == <<"C">>
TypeSNC == <<"S", "N", "C">>
TypeNC == <<"N", "C">>

\* str.split(): the runs of characters that are not whitespace
RECURSIVE Split(_)
Split(str) ==
    LET s == LStrip(str)
        word == TakeWhile(s, {c \in {s[i] : i \in 1..Len(s)} : c \notin Whitespace})
    IN  IF s = <<>> THEN <<>> ELSE <<word>> \o Split(From(s, Len(word)))

HexDigits == DecimalDigits \cup {"a", "b", "c", "d", "e", "f", "A", "B", "C", "D", "E", "F"}

HexDigitValue(c) ==
    CASE c \in DecimalDigits -> DigitValue(c)
      [] c \in {"a", "A"} -> 10 [] c \in {"b", "B"} -> 11 [] c \in {"c", "C"} -> 12
      [] c \in {"d", "D"} -> 13 [] c \in {"e", "E"} -> 14 [] c \in {"f", "F"} -> 15

RECURSIVE HexDigitsValue(_)
HexDigitsValue(str) ==
    IF str = <<>> THEN 0
    ELSE 16 * HexDigitsValue(SubSeq(str, 1, Len(str) - 1)) + HexDigitValue(str[Len(str)])

\* the digits of int(str, 16): after an optional sign and an optional 0x
HexBody(str) ==
    LET u == Unsigned(Strip(str))
    IN  IF Len(u) >= 2 /\ u[1] = "0" /\ u[2] \in {"x", "X"} THEN From(u, 2) ELSE u

\* int(str, 16) does not raise ValueError
IsHex(str) ==
    /\ HexBody(str) # <<>>
    /\ \A i \in 1..Len(HexBody(str)) : HexBody(str)[i] \in HexDigits

\* int(str, 16) where it does not raise
HexOf(str) ==
    IF Strip(str)[1] = "-" THEN 0 - HexDigitsValue(HexBody(str))
    ELSE HexDigitsValue(HexBody(str))

\* FEATURE_NAMES, lines 83-96
FEATURE_NAMES ==
    (16 :> "Brightness") @@ (18 :> "Contrast") @@ (19 :> "Backlight")
    @@ (20 :> "Color Preset") @@ (22 :> "Red Gain") @@ (24 :> "Green Gain")
    @@ (26 :> "Blue Gain") @@ (96 :> "Input Source") @@ (98 :> "Volume")
    @@ (141 :> "Audio Mute") @@ (135 :> "Sharpness") @@ (220 :> "Display Mode")

\* lines 314-319 and 327-332: VCPValue(code, current, maximum, name)
VCPValue(code, current, maximum) ==
    [code |-> code, current |-> current, maximum |-> maximum,
     name |-> Get(FEATURE_NAMES, code, <<"Feature", code>>)]

\* line 313: int(parts[4]) if len(parts) > 4 else 100
MaximumOf(parts) == IF Len(parts) > 4 THEN IntOf(parts[5]) ELSE 100

\* lines 322-326: value_str read as hexadecimal after an x, else as decimal
VcpMutantHexAsDecimal(value_str) ==
    IF StartsWith(value_str, <<"x">>) THEN IntOf(Tail(value_str)) ELSE IntOf(value_str)

NonContinuousCurrent(value_str) ==
    IF StartsWith(value_str, <<"x">>) THEN HexOf(Tail(value_str)) ELSE IntOf(value_str)

\* lines 308-332 raise ValueError on parts
RaisesValueError(parts) ==
    \/ ~IsHex(parts[2])
    \/ /\ parts[3] = TypeC
       /\ ~IsInt(parts[4]) \/ (Len(parts) > 4 /\ ~IsInt(parts[5]))
    \/ /\ parts[3] \in {TypeSNC, TypeNC}
       /\ IF StartsWith(parts[4], <<"x">>) THEN ~IsHex(Tail(parts[4]))
          ELSE ~IsInt(parts[4])

\* lines 333-335: except (ValueError, IndexError): continue
VcpMutantErrorClears(results) == <<>>

OnValueError(results) == results

\* results[code] = value
VcpMutantForgetsEarlier(results, code, value) == code :> value

StoreResult(results, code, value) == (code :> value) @@ results

\* lines 298-335 for one line: results after it
AfterLine(results, line) ==
    LET parts == Split(Strip(line))
    IN  IF ~StartsWith(Strip(line), VCP) THEN results
        ELSE IF Len(parts) < 4 THEN results
        ELSE IF RaisesValueError(parts) THEN OnValueError(results)
        ELSE IF parts[3] = TypeC
        THEN StoreResult(results, HexOf(parts[2]),
                         VCPValue(HexOf(parts[2]), IntOf(parts[4]), MaximumOf(parts)))
        ELSE IF parts[3] \in {TypeSNC, TypeNC}
        THEN StoreResult(results, HexOf(parts[2]),
                         VCPValue(HexOf(parts[2]), NonContinuousCurrent(parts[4]), 255))
        ELSE results

\* lines 296-337 for a whole output
RECURSIVE ParseLines(_)
ParseLines(lines) ==
    IF lines = <<>> THEN <<>>
    ELSE AfterLine(ParseLines(SubSeq(lines, 1, Len(lines) - 1)), lines[Len(lines)])

\* str.splitlines() of line 298
RECURSIVE SplitLines(_)
SplitLines(str) ==
    IF str = <<>> THEN <<>>
    ELSE IF IndexOf(str, "\n") = 0 THEN <<str>>
    ELSE <<SubSeq(str, 1, IndexOf(str, "\n") - 1)>> \o SplitLines(From(str, IndexOf(str, "\n")))

\* the text of an output whose lines are given, each ended by a newline
RECURSIVE OutputText(_)
OutputText(lines) ==
    IF lines = <<>> THEN <<>> ELSE Head(lines) \o <<"\n">> \o OutputText(Tail(lines))

\* lines 296-337 for an output given as text
ParseOutput(output) == ParseLines(SplitLines(output))

\* line 296 and the output handed in; the Monitor's vcp_values start empty
InitGetvcp ==
    /\ Construction /\ pkexec = TRUE /\ nsess = 0
    /\ text \in {OutputText(q) : q \in SeqsUpTo(VcpLines, MaxVcpLines)}
    /\ cursor = 1
    /\ work = [results |-> <<>>, vcp_values |-> <<>>, stored |-> FALSE]
    /\ result = NoResult

\* lines 298-299: the line the loop is at, and its parts (line 303)
VcpOutputLines == SplitLines(text)
VcpLine == Strip(VcpOutputLines[cursor])
VcpParts == Split(VcpLine)

\* lines 300-301: the line does not start with "VCP"
VcpNoKeyword ==
    /\ result = NoResult
    /\ cursor \in 1..Len(VcpOutputLines)
    /\ ~StartsWith(VcpLine, VCP)
    /\ cursor' = cursor + 1
    /\ UNCHANGED <<text, work, result>>
    /\ UNCHANGED transportVars

\* lines 303-305: fewer than four parts
VcpTooShort ==
    /\ result = NoResult
    /\ cursor \in 1..Len(VcpOutputLines)
    /\ StartsWith(VcpLine, VCP)
    /\ Len(VcpParts) < 4
    /\ cursor' = cursor + 1
    /\ UNCHANGED <<text, work, result>>
    /\ UNCHANGED transportVars

\* lines 307-313 or 321-326 raise ValueError, lines 333-335 pass over the line
VcpValueError ==
    /\ result = NoResult
    /\ cursor \in 1..Len(VcpOutputLines)
    /\ StartsWith(VcpLine, VCP)
    /\ Len(VcpParts) >= 4
    /\ RaisesValueError(VcpParts)
    /\ work' = [work EXCEPT !.results = OnValueError(@)]
    /\ cursor' = cursor + 1
    /\ UNCHANGED <<text, result>>
    /\ UNCHANGED transportVars

\* lines 308-319: a line of type C
VcpContinuous ==
    /\ result = NoResult
    /\ cursor \in 1..Len(VcpOutputLines)
    /\ StartsWith(VcpLine, VCP)
    /\ Len(VcpParts) >= 4
    /\ ~RaisesValueError(VcpParts)
    /\ VcpParts[3] = TypeC
    /\ LET code == HexOf(VcpParts[2])
           current == IntOf(VcpParts[4])
           maximum == MaximumOf(VcpParts)
       IN  work' = [work EXCEPT !.results =
                        StoreResult(@, code, VCPValue(code, current, maximum))]
    /\ cursor' = cursor + 1
    /\ UNCHANGED <<text, result>>
    /\ UNCHANGED transportVars

\* lines 308-309 and 320-332: a line of type SNC or NC
VcpNonContinuous ==
    /\ result = NoResult
    /\ cursor \in 1..Len(VcpOutputLines)
    /\ StartsWith(VcpLine, VCP)
    /\ Len(VcpParts) >= 4
    /\ ~RaisesValueError(VcpParts)
    /\ VcpParts[3] \in {TypeSNC, TypeNC}
    /\ LET code == HexOf(VcpParts[2])
           current == NonContinuousCurrent(VcpParts[4])
       IN  work' = [work EXCEPT !.results =
                        StoreResult(@, code, VCPValue(code, current, 255))]
    /\ cursor' = cursor + 1
    /\ UNCHANGED <<text, result>>
    /\ UNCHANGED transportVars

\* lines 308-320: a type that is neither C nor SNC nor NC stores nothing
VcpOtherType ==
    /\ result = NoResult
    /\ cursor \in 1..Len(VcpOutputLines)
    /\ StartsWith(VcpLine, VCP)
    /\ Len(VcpParts) >= 4
    /\ ~RaisesValueError(VcpParts)
    /\ VcpParts[3] \notin {TypeC, TypeSNC, TypeNC}
    /\ cursor' = cursor + 1
    /\ UNCHANGED <<text, work, result>>
    /\ UNCHANGED transportVars

\* line 337
VcpReturn ==
    /\ result = NoResult
    /\ cursor = Len(VcpOutputLines) + 1
    /\ result' = [how |-> "return", values |-> work.results]
    /\ UNCHANGED <<text, cursor, work>>
    /\ UNCHANGED transportVars

\* window.py lines 186-187 with monitor.py line 69: every value returned is
\* stored under its code
RECURSIVE SetVcpValues(_, _)
SetVcpValues(vcp_values, values) ==
    IF DOMAIN values = {} THEN vcp_values
    ELSE LET c == CHOOSE k \in DOMAIN values : TRUE
         IN  SetVcpValues((values[c].code :> values[c]) @@ vcp_values,
                          [k \in DOMAIN values \ {c} |-> values[k]])

MonitorStore ==
    /\ result # NoResult
    /\ ~work.stored
    /\ work' = [work EXCEPT !.vcp_values = SetVcpValues(@, result.values),
                            !.stored = TRUE]
    /\ UNCHANGED <<text, cursor, result>>
    /\ UNCHANGED transportVars

NextGetvcp ==
    \/ VcpNoKeyword
    \/ VcpTooShort
    \/ VcpValueError
    \/ VcpContinuous
    \/ VcpNonContinuous
    \/ VcpOtherType
    \/ VcpReturn
    \/ MonitorStore

SpecGetvcp == InitGetvcp /\ [][NextGetvcp]_vars

\* C23: a line of type C whose current token is at most its maximum token (at
\* most 100 when there is no maximum token) is stored with
\* 0 <= current <= maximum.
C23_ContinuousWithinRange ==
    [][(/\ cursor' = cursor + 1
        /\ work'.results # work.results
        /\ VcpParts[3] = TypeC
        /\ IntOf(VcpParts[4]) <= (IF Len(VcpParts) > 4 THEN IntOf(VcpParts[5]) ELSE 100))
            => LET v == work'.results[HexOf(VcpParts[2])]
               IN  0 <= v.current /\ v.current <= v.maximum]_vars

\* C24: every value of a continuous feature that the parser stores has
\* 0 <= current <= maximum.
C24_ContinuousAlwaysWithinRange ==
    [][(/\ cursor' = cursor + 1
        /\ work'.results # work.results
        /\ VcpParts[3] = TypeC)
            => LET v == work'.results[HexOf(VcpParts[2])]
               IN  0 <= v.current /\ v.current <= v.maximum]_vars

\* C25: a line of type SNC or NC that the parser accepts is stored with
\* maximum 255 whatever its other tokens are, and with current its fourth
\* token read as decimal, or as hexadecimal after a leading lowercase x.
C25_NonContinuousValue ==
    [][(/\ cursor' = cursor + 1
        /\ work'.results # work.results
        /\ VcpParts[3] \in {TypeSNC, TypeNC})
            => LET v == work'.results[HexOf(VcpParts[2])]
                   token == VcpParts[4]
               IN  /\ v.maximum = 255
                   /\ v.current = (IF token[1] = "x" THEN HexOf(Tail(token))
                                   ELSE IntOf(token))]_vars

\* a hexadecimal x11 and a decimal 17 followed by a further token were both
\* returned as 17 of 255
C25_HexAndDecimalRead ==
    /\ result # NoResult
    /\ {96, 214} \subseteq DOMAIN result.values
    /\ result.values[96] = [code |-> 96, current |-> 17, maximum |-> 255,
                            name |-> "Input Source"]
    /\ result.values[214].current = 17
    /\ result.values[214].maximum = 255

\* the output up to line k, and the output after it
FirstOutput(k) == OutputText(SubSeq(VcpOutputLines, 1, k))
SecondOutput(k) == OutputText(SubSeq(VcpOutputLines, k + 1, Len(VcpOutputLines)))

\* C26: when the output is two single-feature outputs, for two codes, one
\* after the other, the mapping returned holds both codes, each with the value
\* that parsing its output alone gives.
C26_ConcatenationRoundTrip ==
    result # NoResult =>
        \A k \in 1..(Len(VcpOutputLines) - 1) :
            LET first == ParseOutput(FirstOutput(k))
                second == ParseOutput(SecondOutput(k))
            IN  (/\ text = FirstOutput(k) \o SecondOutput(k)
                 /\ Cardinality(DOMAIN first) = 1
                 /\ Cardinality(DOMAIN second) = 1
                 /\ DOMAIN first # DOMAIN second)
                    => /\ DOMAIN result.values = DOMAIN first \cup DOMAIN second
                       /\ \A c \in DOMAIN first : result.values[c] = first[c]
                       /\ \A c \in DOMAIN second : result.values[c] = second[c]

\* a brightness output of two lines followed by an input-source output
C26_TwoOutputsJoined ==
    /\ result # NoResult
    /\ Len(VcpOutputLines) = 3
    /\ text = FirstOutput(2) \o SecondOutput(2)
    /\ DOMAIN ParseOutput(FirstOutput(2)) = {16}
    /\ DOMAIN ParseOutput(SecondOutput(2)) = {96}
    /\ DOMAIN result.values = {16, 96}
    /\ result.values[16].current = 70
    /\ result.values[96].current = 17

\* a line the claim calls parsable: it has the keyword, at least four tokens,
\* a hexadecimal code, a known type and a numeric value
Parsable(line) ==
    LET parts == Split(Strip(line))
    IN  /\ StartsWith(Strip(line), VCP)
        /\ Len(parts) >= 4
        /\ IsHex(parts[2])
        /\ \/ /\ parts[3] = TypeC
              /\ IsInt(parts[4])
              /\ Len(parts) > 4 => IsInt(parts[5])
           \/ /\ parts[3] \in {TypeSNC, TypeNC}
              /\ \/ parts[4][1] = "x" /\ IsHex(Tail(parts[4]))
                 \/ parts[4][1] # "x" /\ IsInt(parts[4])

\* C27: the parser returns (it never fails) whatever lines the output holds,
\* and the mapping returned is the mapping for the same output with its
\* unparsable lines (no keyword, fewer than four tokens, non-numeric code or
\* value, unknown type) taken out.
C27_UnparsableLinesSkipped ==
    result # NoResult =>
        /\ result.how = "return"
        /\ result.values = ParseOutput(OutputText(SelectSeq(VcpOutputLines, Parsable)))

\* one parsable line between two unparsable lines of different kinds
C27_SkippedAroundValue ==
    /\ result # NoResult
    /\ Len(VcpOutputLines) = 3
    /\ ~Parsable(VcpOutputLines[1])
    /\ Len(Split(VcpOutputLines[1])) >= 4
    /\ Parsable(VcpOutputLines[2])
    /\ ~Parsable(VcpOutputLines[3])
    /\ Len(Split(VcpOutputLines[3])) = 3
    /\ Cardinality(DOMAIN result.values) = 1

-----------------------------------------------------------------------------
\* The parser of DDCUtil.get_capabilities, ddcutil.py lines 406-448, run on
\* its own on a given output of "ddcutil capabilities"

\* bound on the lines of one capabilities output
MaxCapLines == 4

\* the lines a capabilities output is made of
CapLines ==
    {<<"F", "e", "a", "t", "u", "r", "e", ":", " ", "6", "0", " ", "(", "I", "n", "p", "u", "t", " ", "S", "o", "u", "r", "c", "e", ")">>,
     <<" ", " ", " ", "F", "e", "a", "t", "u", "r", "e", ":", " ", "1", "4", " ", "(", "C", "o", "l", "o", "r", " ", "P", "r", "e", "s", "e", "t", ")">>,
     <<" ", " ", " ", " ", " ", " ", "V", "a", "l", "u", "e", "s", ":", " ", "1", "1", " ", "1", "2">>,
     <<" ", " ", " ", " ", " ", " ", "V", "a", "l", "u", "e", "s", ":", " ", "0", "F", " ", "1", "1", " ", "(", "i", "n", "t", "e", "r", "p", "r", "e", "t", "a", "t", "i", "o", "n", " ", "u", "n", "a", "v", "a", "i", "l", "a", "b", "l", "e", ")">>,
     <<" ", " ", " ", " ", " ", " ", "V", "a", "l", "u", "e", "s", ":">>,
     <<" ", " ", " ", " ", " ", " ", " ", " ", " ", "1", "1", ":", " ", "H", "D", "M", "I", "-", "1">>,
     <<" ", " ", " ", " ", " ", " ", " ", " ", " ", "1", "2", ":", " ", "G", "a", "m", "e">>,
     <<" ", " ", " ", " ", " ", " ", " ", " ", " ", "0", "F", ":", " ", "D", "i", "s", "p", "l", "a", "y", "P", "o", "r", "t", "-", "1">>,
     <<"V", "C", "P", " ", "v", "e", "r", "s", "i", "o", "n", ":", " ", "2", ".", "1">>,
     <<"F", "e", "a", "t", "u", "r", "e", ":", " ", "6", " ", "(", "b", "a", "d", ")">>,
     <<"F", "e", "a", "t", "u", "r", "e", ":", " ", "E", "9">>}

\* the literals of lines 413 and 421
FeatureWord == <<"F", "e", "a", "t", "u", "r", "e", ":">>
ValuesWord == <<"V", "a", "l", "u", "e", "s", ":">>

\* DEFAULT_VALUE_NAMES, lines 347-391
DEFAULT_VALUE_NAMES ==
    (141 :> ((1 :> <<"M", "u", "t", "e">>)
         @@ (2 :> <<"U", "n", "m", "u", "t", "e">>)))
    @@ (96 :> ((1 :> <<"V", "G", "A", "-", "1">>)
         @@ (2 :> <<"V", "G", "A", "-", "2">>)
         @@ (3 :> <<"D", "V", "I", "-", "1">>)
         @@ (4 :> <<"D", "V", "I", "-", "2">>)
         @@ (15 :> <<"D", "i", "s", "p", "l", "a", "y", "P", "o", "r", "t", "-", "1">>)
         @@ (16 :> <<"D", "i", "s", "p", "l", "a", "y", "P", "o", "r", "t", "-", "2">>)
         @@ (17 :> <<"H", "D", "M", "I", "-", "1">>)
         @@ (18 :> <<"H", "D", "M", "I", "-", "2">>)
         @@ (19 :> <<"H", "D", "M", "I", "-", "3">>)
         @@ (20 :> <<"H", "D", "M", "I", "-", "4">>)))
    @@ (20 :> ((1 :> <<"s", "R", "G", "B">>)
         @@ (2 :> <<"N", "a", "t", "i", "v", "e">>)
         @@ (3 :> <<"4", "0", "0", "0", "K">>)
         @@ (4 :> <<"5", "0", "0", "0", "K">>)
         @@ (5 :> <<"6", "5", "0", "0", "K">>)
         @@ (6 :> <<"7", "5", "0", "0", "K">>)
         @@ (7 :> <<"8", "2", "0", "0", "K">>)
         @@ (8 :> <<"9", "3", "0", "0", "K">>)
         @@ (9 :> <<"1", "0", "0", "0", "0", "K">>)
         @@ (10 :> <<"1", "1", "5", "0", "0", "K">>)
         @@ (11 :> <<"U", "s", "e", "r", " ", "1">>)
         @@ (12 :> <<"U", "s", "e", "r", " ", "2">>)
         @@ (13 :> <<"U", "s", "e", "r", " ", "3">>)))
    @@ (220 :> ((0 :> <<"S", "t", "a", "n", "d", "a", "r", "d">>)
         @@ (1 :> <<"P", "r", "o", "d", "u", "c", "t", "i", "v", "i", "t", "y">>)
         @@ (2 :> <<"M", "i", "x", "e", "d">>)
         @@ (3 :> <<"M", "o", "v", "i", "e">>)
         @@ (4 :> <<"U", "s", "e", "r">>)
         @@ (5 :> <<"G", "a", "m", "e", "s">>)
         @@ (6 :> <<"S", "p", "o", "r", "t", "s">>)
         @@ (7 :> <<"P", "r", "o", "f", "e", "s", "s", "i", "o", "n", "a", "l">>)
         @@ (8 :> <<"S", "t", "a", "n", "d", "a", "r", "d", " ", "2">>)
         @@ (240 :> <<"D", "y", "n", "a", "m", "i", "c", " ", "C", "o", "n", "t", "r", "a", "s", "t">>)))

UpperLetters ==
    {"A", "B", "C", "D", "E", "F", "G", "H", "I", "J", "K", "L", "M",
     "N", "O", "P", "Q", "R", "S", "T", "U", "V", "W", "X", "Y", "Z"}

\* the characters \b of line 428 takes as part of a word
WordChars == UpperLetters \cup {LowerChar(c) : c \in UpperLetters} \cup DecimalDigits \cup {"_"}

\* the characters of str
CharsOf(str) == {str[i] : i \in 1..Len(str)}

\* the position of the first sub in str, 0 if there is none
Find(str, sub) ==
    LET hits == {i \in 1..(Len(str) - Len(sub) + 1) : SubSeq(str, i, i + Len(sub) - 1) = sub}
    IN  IF hits = {} THEN 0 ELSE CHOOSE i \in hits : \A j \in hits : i <= j

\* lines 412-414: group 1 of
\* re.match(r"\s*Feature:\s*([0-9A-Fa-f]{2})\s*\(([^)]+)\)", line), <<>>
\* without a match
FeatureMatch(line) ==
    LET afterWord == LStrip(From(LStrip(line), Len(FeatureWord)))
        afterCode == LStrip(From(afterWord, 2))
        description == TakeWhile(From(afterCode, 1), CharsOf(afterCode) \ {")"})
    IN  IF /\ StartsWith(LStrip(line), FeatureWord)
           /\ Len(afterWord) >= 2
           /\ afterWord[1] \in HexDigits
           /\ afterWord[2] \in HexDigits
           /\ afterCode # <<>>
           /\ afterCode[1] = "("
           /\ description # <<>>
           /\ Len(afterCode) >= Len(description) + 2
        THEN SubSeq(afterWord, 1, 2)
        ELSE <<>>

\* line 426: re.sub(r'\([^)]*\)\s*$', '', values_part)
WithoutTrailingParenthesis(str) ==
    LET hits == {i \in 1..Len(str) :
                    /\ str[i] = "("
                    /\ LET inside == TakeWhile(From(str, i), CharsOf(str) \ {")"})
                           close == i + Len(inside) + 1
                       IN  /\ close <= Len(str)
                           /\ \A j \in (close + 1)..Len(str) : str[j] \in Whitespace}
    IN  IF hits = {} THEN str
        ELSE SubSeq(str, 1, (CHOOSE i \in hits : \A j \in hits : i <= j) - 1)

\* the runs of word characters of str, in order
RECURSIVE Words(_)
Words(str) ==
    IF str = <<>> THEN <<>>
    ELSE IF str[1] \notin WordChars THEN Words(Tail(str))
    ELSE LET word == TakeWhile(str, WordChars)
         IN  <<word>> \o Words(From(str, Len(word)))

HexPair(word) == Len(word) = 2 /\ word[1] \in HexDigits /\ word[2] \in HexDigits

\* lines 424-428: the inline values of a line that holds "Values:"
InlineValues(line) ==
    LET values_part == From(line, Find(line, ValuesWord) - 1 + Len(ValuesWord))
    IN  SelectSeq(Words(Strip(WithoutTrailingParenthesis(values_part))), HexPair)

\* line 439: re.match(r"\s*([0-9A-Fa-f]{2}):\s*(.+)", line) matches
ValueMatch(line) ==
    LET s == LStrip(line)
    IN  /\ Len(s) >= 4
        /\ s[1] \in HexDigits
        /\ s[2] \in HexDigits
        /\ s[3] = ":"

\* lines 441-442: the value and the name of a line that matches
ValueLineOption(line) ==
    LET s == LStrip(line)
    IN  <<HexDigitsValue(SubSeq(s, 1, 2)), Strip(From(s, 3))>>

HexDigitChar(d) ==
    CASE d = 0 -> "0" [] d = 1 -> "1" [] d = 2 -> "2" [] d = 3 -> "3"
      [] d = 4 -> "4" [] d = 5 -> "5" [] d = 6 -> "6" [] d = 7 -> "7"
      [] d = 8 -> "8" [] d = 9 -> "9" [] d = 10 -> "a" [] d = 11 -> "b"
      [] d = 12 -> "c" [] d = 13 -> "d" [] d = 14 -> "e" [] d = 15 -> "f"

\* f"Value {value:#04x}" of line 453, for a value of two hexadecimal digits
ValuePlaceholder(value) ==
    <<"V", "a", "l", "u", "e", " ", "0", "x",
      HexDigitChar(value \div 16), HexDigitChar(value % 16)>>

\* lines 450-453
get_default_value_name(feature_code, value) ==
    LET feature_defaults == Get(DEFAULT_VALUE_NAMES, feature_code, <<>>)
    IN  Get(feature_defaults, value, ValuePlaceholder(value))

\* current_feature is None
NoFeature == 0 - 1

\* lines 433-435 and 443-445: feature_values[current_feature].append(option)
AddOption(feature_values, feature, option) ==
    IF feature \in DOMAIN feature_values
    THEN [feature_values EXCEPT ![feature] = Append(@, option)]
    ELSE (feature :> <<option>>) @@ feature_values

\* lines 429-435: the loop over inline_values
CapMutantFirstInlineOnly(feature_values, feature, inline_values) ==
    IF inline_values = <<>> THEN feature_values
    ELSE AddOption(feature_values, feature,
                   <<HexDigitsValue(Head(inline_values)),
                     get_default_value_name(feature, HexDigitsValue(Head(inline_values)))>>)

RECURSIVE AddInline(_, _, _)
AddInline(feature_values, feature, inline_values) ==
    IF inline_values = <<>> THEN feature_values
    ELSE LET value == HexDigitsValue(Head(inline_values))
         IN  AddInline(AddOption(feature_values, feature,
                                 <<value, get_default_value_name(feature, value)>>),
                       feature, Tail(inline_values))

\* line 421: the feature a value is attributed to, and whether one is
CapMutantFirstFeature(supported, current_feature) ==
    IF supported = {} THEN current_feature
    ELSE CHOOSE f \in supported : \A g \in supported : f <= g

Attributed(supported, current_feature) == current_feature

\* lines 410-445 for one line: the parser's three variables after it
CapAfterLine(st, line) ==
    IF FeatureMatch(line) # <<>>
    THEN [st EXCEPT !.current_feature = HexDigitsValue(FeatureMatch(line)),
                    !.supported = @ \cup {HexDigitsValue(FeatureMatch(line))}]
    ELSE IF Contains(line, ValuesWord) /\ st.current_feature # NoFeature
    THEN [st EXCEPT !.feature_values =
                AddInline(@, Attributed(st.supported, st.current_feature),
                          InlineValues(line))]
    ELSE IF st.current_feature # NoFeature /\ ValueMatch(line)
    THEN [st EXCEPT !.feature_values =
                AddOption(@, Attributed(st.supported, st.current_feature),
                          ValueLineOption(line))]
    ELSE st

\* lines 406-408
CapStart == [supported |-> {}, feature_values |-> <<>>, current_feature |-> NoFeature]

\* lines 406-447 for a whole output
RECURSIVE ParseCapabilities(_)
ParseCapabilities(lines) ==
    IF lines = <<>> THEN CapStart
    ELSE CapAfterLine(ParseCapabilities(SubSeq(lines, 1, Len(lines) - 1)), lines[Len(lines)])

InitCapabilities ==
    /\ Construction /\ pkexec = TRUE /\ nsess = 0
    /\ text \in SeqsUpTo(CapLines, MaxCapLines)
    /\ cursor = 1
    /\ work = CapStart
    /\ result = NoResult

\* line 410: the line the loop is at
CapLine == text[cursor]

\* lines 412-418: a Feature line
CapFeature ==
    /\ result = NoResult
    /\ cursor \in 1..Len(text)
    /\ FeatureMatch(CapLine) # <<>>
    /\ work' = CapAfterLine(work, CapLine)
    /\ cursor' = cursor + 1
    /\ UNCHANGED <<text, result>>
    /\ UNCHANGED transportVars

\* lines 421-436: a line that holds "Values:" under a feature
CapValuesInline ==
    /\ result = NoResult
    /\ cursor \in 1..Len(text)
    /\ FeatureMatch(CapLine) = <<>>
    /\ Contains(CapLine, ValuesWord)
    /\ work.current_feature # NoFeature
    /\ work' = CapAfterLine(work, CapLine)
    /\ cursor' = cursor + 1
    /\ UNCHANGED <<text, result>>
    /\ UNCHANGED transportVars

\* lines 438-445: a "code: name" line under a feature
CapValueLine ==
    /\ result = NoResult
    /\ cursor \in 1..Len(text)
    /\ FeatureMatch(CapLine) = <<>>
    /\ ~Contains(CapLine, ValuesWord)
    /\ work.current_feature # NoFeature
    /\ ValueMatch(CapLine)
    /\ work' = CapAfterLine(work, CapLine)
    /\ cursor' = cursor + 1
    /\ UNCHANGED <<text, result>>
    /\ UNCHANGED transportVars

\* lines 421 and 438-440: any line before the first feature, and a line under
\* a feature that is neither a Values line nor a "code: name" line
CapOther ==
    /\ result = NoResult
    /\ cursor \in 1..Len(text)
    /\ FeatureMatch(CapLine) = <<>>
    /\ \/ work.current_feature = NoFeature
       \/ ~Contains(CapLine, ValuesWord) /\ ~ValueMatch(CapLine)
    /\ cursor' = cursor + 1
    /\ UNCHANGED <<text, work, result>>
    /\ UNCHANGED transportVars

\* line 447
CapReturn ==
    /\ result = NoResult
    /\ cursor = Len(text) + 1
    /\ result' = [how |-> "return", supported |-> work.supported,
                  feature_values |-> work.feature_values]
    /\ UNCHANGED <<text, cursor, work>>
    /\ UNCHANGED transportVars

NextCapabilities ==
    \/ CapFeature
    \/ CapValuesInline
    \/ CapValueLine
    \/ CapOther
    \/ CapReturn

SpecCapabilities == InitCapabilities /\ [][NextCapabilities]_vars

\* C29: a Feature line records its code as supported and makes it the current
\* feature; a step that adds options adds them to the current feature only,
\* and never before a Feature line; so every code with an option list is in
\* the supported set.
C29_OptionsUnderCurrentFeature ==
    /\ [](DOMAIN work.feature_values \subseteq work.supported)
    /\ [][cursor' = cursor + 1 =>
            /\ FeatureMatch(CapLine) # <<>> =>
                    /\ work'.current_feature = HexDigitsValue(FeatureMatch(CapLine))
                    /\ work'.current_feature \in work'.supported
                    /\ work'.feature_values = work.feature_values
            /\ work'.feature_values # work.feature_values =>
                    /\ work.current_feature # NoFeature
                    /\ \A f \in DOMAIN work'.feature_values :
                            f # work.current_feature =>
                                /\ f \in DOMAIN work.feature_values
                                /\ work'.feature_values[f] = work.feature_values[f]]_vars

\* two features were read, each with its own options, after a value line that
\* came before the first feature
C29_TwoFeaturesWithOptions ==
    /\ result # NoResult
    /\ Len(text) = 4
    /\ ValueMatch(text[1])
    /\ result.supported = {96, 20}
    /\ DOMAIN result.feature_values = {96}
    /\ Len(result.feature_values[96]) = 1

\* the value codes a listing is written with, as the tool prints them
ValueTokens == {<<"1", "1">>, <<"1", "2">>, <<"0", "F">>}

\* what may follow the inline values on their line
Annotations ==
    {<<>>, <<" ", "(", "i", "n", "t", "e", "r", "p", "r", "e", "t", "a", "t", "i", "o", "n",
             " ", "u", "n", "a", "v", "a", "i", "l", "a", "b", "l", "e", ")">>}

\* a name the monitor gives a value that is not the built-in one
OwnName == <<"G", "a", "m", "e">>

\* the values written on one line: "Values: v1 v2 ..."
RECURSIVE Spaced(_)
Spaced(tokens) ==
    IF tokens = <<>> THEN <<>> ELSE <<" ">> \o Head(tokens) \o Spaced(Tail(tokens))

InlineForm(tokens, annotation) == ValuesWord \o Spaced(tokens) \o annotation

\* the values written one per line: "v: name"
SeparateForm(tokens, names) ==
    [i \in 1..Len(tokens) |-> <<" ", " ">> \o tokens[i] \o <<":", " ">> \o names[i]]

\* the built-in names of the values of a feature
DefaultNames(feature, tokens) ==
    [i \in 1..Len(tokens) |-> get_default_value_name(feature, HexDigitsValue(tokens[i]))]

\* the names a listing may give its values: each the built-in one or its own
Namings(feature, tokens) ==
    {names \in [1..Len(tokens) -> {OwnName} \cup {DefaultNames(feature, tokens)[i] :
                                                    i \in 1..Len(tokens)}] :
        \A i \in 1..Len(tokens) :
            names[i] \in {OwnName, DefaultNames(feature, tokens)[i]}}

\* the values of an option list, in order
OptionValues(options) == [i \in 1..Len(options) |-> options[i][1]]

\* the options of an option list, as a set
OptionSet(options) == {options[i] : i \in 1..Len(options)}

\* the output is a Feature line and one Values line that lists tokens
InlineListing(tokens) ==
    /\ result # NoResult
    /\ Len(text) = 2
    /\ FeatureMatch(text[1]) # <<>>
    /\ \E annotation \in Annotations : Strip(text[2]) = InlineForm(tokens, annotation)

\* the same listing with one "code: name" line per value
AsSeparateLines(tokens, names) ==
    ParseCapabilities(<<text[1]>> \o SeparateForm(tokens, names))

\* C28 as amended: the values of a feature listed on one Values line and the
\* same values listed on one "code: name" line each give the same supported
\* set and the same value codes in the same order; the option lists are equal
\* when the lines carry the built-in names.
C28_SameValuesEitherFormat ==
    \A tokens \in SeqsUpTo(ValueTokens, 2) \ {<<>>} :
        InlineListing(tokens) =>
            LET feature == HexDigitsValue(FeatureMatch(text[1]))
            IN  \A names \in Namings(feature, tokens) :
                    LET separate == AsSeparateLines(tokens, names)
                    IN  /\ separate.supported = result.supported
                        /\ DOMAIN separate.feature_values = DOMAIN result.feature_values
                        /\ OptionValues(separate.feature_values[feature])
                                = OptionValues(result.feature_values[feature])
                        /\ names = DefaultNames(feature, tokens) =>
                                separate.feature_values[feature]
                                    = result.feature_values[feature]

\* C28: the values of a feature listed on one Values line and the same values
\* listed on one "code: name" line each give option lists that are equal as
\* sets.
C28_SameOptionsEitherFormat ==
    \A tokens \in SeqsUpTo(ValueTokens, 2) \ {<<>>} :
        InlineListing(tokens) =>
            LET feature == HexDigitsValue(FeatureMatch(text[1]))
            IN  \A names \in Namings(feature, tokens) :
                    OptionSet(AsSeparateLines(tokens, names).feature_values[feature])
                        = OptionSet(result.feature_values[feature])

\* an input-source listing of two values on one annotated Values line
C28_TwoInlineValues ==
    /\ InlineListing(<<<<"0", "F">>, <<"1", "1">>>>)
    /\ Contains(text[2], <<"(">>)
    /\ OptionValues(result.feature_values[96]) = <<15, 17>>
    /\ result.feature_values[96][2][2] = <<"H", "D", "M", "I", "-", "1">>

-----------------------------------------------------------------------------
\* Monitor.supports_feature, monitor.py lines 71-76, on a Monitor whose
\* supported_features the window sets from get_capabilities

\* the feature codes a capability set and a query are drawn from
QueryCodes == {16, 18, 96, 98, 220, 230}

\* monitor.py line 26: supported_features starts as the empty set
InitSupport ==
    /\ Construction /\ pkexec = TRUE /\ nsess = 0
    /\ text = [supported_features |-> {}]
    /\ cursor = 0
    /\ work = <<>>
    /\ result = NoResult

\* window.py line 162: monitor.supported_features = supported
SetSupported ==
    /\ \E supported \in SUBSET QueryCodes :
            text' = [text EXCEPT !.supported_features = supported]
    /\ result' = NoResult
    /\ UNCHANGED <<cursor, work>>
    /\ UNCHANGED transportVars

\* monitor.py line 74: not self.supported_features
SupportMutantEmptyMeansNone(supported_features, feature_code) ==
    feature_code \in supported_features

supports_feature(supported_features, feature_code) ==
    IF supported_features = {} THEN TRUE
    ELSE feature_code \in supported_features

\* monitor.py lines 71-76
CallSupportsFeature ==
    /\ \E feature_code \in QueryCodes :
            result' = [how |-> "return", feature_code |-> feature_code,
                       value |-> supports_feature(text.supported_features, feature_code)]
    /\ UNCHANGED <<text, cursor, work>>
    /\ UNCHANGED transportVars

NextSupport ==
    \/ SetSupported
    \/ CallSupportsFeature

SpecSupport == InitSupport /\ [][NextSupport]_vars

\* C30: with an empty supported set every feature code is reported as
\* supported; with a non-empty one a code is reported as supported exactly
\* when it is in the set.
C30_SupportQuery ==
    result # NoResult =>
        /\ result.how = "return"
        /\ text.supported_features = {} => result.value = TRUE
        /\ text.supported_features # {} =>
                (result.value <=> result.feature_code \in text.supported_features)

\* a code was reported as supported on a Monitor without capabilities
C30_EmptyMeansAll ==
    /\ result # NoResult
    /\ text.supported_features = {}
    /\ result.feature_code = 230
    /\ result.value = TRUE

-----------------------------------------------------------------------------
\* The session and the facade under concurrent callers, further properties

\* C34: a start() that reports success returns with the session
\* Authenticated: its process handle present and its flag set.
C34_SuccessMeansAuthenticated ==
    (last.op = "start" /\ last.how = "return" /\ last.val)
        => (process[last.sess] # 0 /\ authenticated[last.sess])

\* C35: in every state of a session, the authenticated flag being set implies
\* that a process handle is present.
C35_FlagImpliesProcess ==
    \A s \in Sessions : authenticated[s] => process[s] # 0

\* the elevated shells that are alive
AliveShells == {p \in Procs : pstate[p] = "running"}

\* C33: across any interleaving of the facade's authenticate calls at most one
\* elevated shell is alive, and every live one is the process of the facade's
\* current session, where stop_privileged can stop it.
C33_OneReachableShell ==
    /\ Cardinality(AliveShells) <= 1
    /\ \A p \in AliveShells : helper # 0 /\ process[helper] = p

-----------------------------------------------------------------------------
\* The end of a response, _run_command lines 116-138

\* the line the trailer `echo "___END_CMD___$?"` prints: the marker and the
\* exit status in decimal digits
IsTrailer(line_str) ==
    /\ StartsWith(line_str, marker)
    /\ Len(line_str) > Len(marker)
    /\ \A i \in (Len(marker) + 1)..Len(line_str) : line_str[i] \in DecimalDigits

\* the stream is the whole response to the command: its output, then the line
\* of its trailer
EndsWithTrailer ==
    /\ text.stream # <<>>
    /\ IsTrailer(Emitted[Len(text.stream)])

\* C37: the response to a command ends at the line of its own trailer: when
\* the call returns, that line has been consumed and no line of the response is
\* left in the pipe, also when the command's output holds a line that begins
\* with the marker.
C37_ConsumesOwnTrailer ==
    (result # NoResult /\ EndsWithTrailer) => cursor = Len(text.stream) + 1

-----------------------------------------------------------------------------
\* DDCUtil.get_vcp and get_vcp_multiple, ddcutil.py lines 270-290, over either
\* transport, against a ddcutil that answers a getvcp command with one line
\* for each feature code on its command line

\* bound on the reads of one run
MaxReads == 2

\* bound on the feature codes of one read
MaxCodes == 2

\* the feature codes and the displays the reads ask for
ReadCodes == {16, 18, 96}
ReadDisplays == {1, 2}

LowerHexChars == <<"0", "1", "2", "3", "4", "5", "6", "7", "8", "9",
                   "a", "b", "c", "d", "e", "f">>
UpperHexChars == <<"0", "1", "2", "3", "4", "5", "6", "7", "8", "9",
                   "A", "B", "C", "D", "E", "F">>

RECURSIVE HexDigitsOf(_)
HexDigitsOf(n) ==
    IF n < 16 THEN <<LowerHexChars[n + 1]>>
    ELSE HexDigitsOf(n \div 16) \o <<LowerHexChars[(n % 16) + 1]>>

\* hex(code) of lines 273 and 285
hex(n) == <<"0", "x">> \o HexDigitsOf(n)

\* str(display) of lines 273 and 286
RECURSIVE StrOf(_)
StrOf(n) ==
    IF n < 10 THEN <<LowerHexChars[n + 1]>>
    ELSE StrOf(n \div 10) \o <<LowerHexChars[(n % 10) + 1]>>

getvcp == <<"g", "e", "t", "v", "c", "p">>
DisplayOption == <<"-", "-", "d", "i", "s", "p", "l", "a", "y">>
TerseOption == <<"-", "-", "t", "e", "r", "s", "e">>

\* lines 285-286 (and line 273 for a single code): the arguments of the call
GetVcpArgs(display, feature_codes) ==
    <<getvcp>> \o [i \in 1..Len(feature_codes) |-> hex(feature_codes[i])]
               \o <<DisplayOption, StrOf(display), TerseOption>>

\* a read that would issue one call for each code
ReadMutantCallPerCode(display, feature_codes) ==
    [i \in 1..Len(feature_codes) |-> GetVcpArgs(display, <<feature_codes[i]>>)]

\* lines 285-289: the calls of _run_async one multi-feature read makes
CallsOf(display, feature_codes) == <<GetVcpArgs(display, feature_codes)>>

\* line 282: not feature_codes
NoCodes(feature_codes) == feature_codes = <<>>

\* the feature codes ddcutil finds on its command line
CodesOfArgs(args) == [i \in 1..(Len(args) - 4) |-> HexOf(args[i + 1])]

\* the lines ddcutil --terse prints for one code: its value, or an error
ValueLine(code) ==
    VCP \o <<" ", UpperHexChars[(code \div 16) + 1], UpperHexChars[(code % 16) + 1]>>
        \o <<" ", "C", " ", "5", "0", " ", "1", "0", "0">>
ErrorLine(code) ==
    VCP \o <<" ", UpperHexChars[(code \div 16) + 1], UpperHexChars[(code % 16) + 1]>>
        \o <<" ", "E", "R", "R">>

\* the outputs ddcutil may print for a getvcp command line
Responses(args) ==
    LET codes == CodesOfArgs(args)
    IN  {[i \in 1..Len(codes) |-> IF i \in ok THEN ValueLine(codes[i])
                                  ELSE ErrorLine(codes[i])] :
            ok \in SUBSET (1..Len(codes))}

\* the line the trailer of a command prints (privileged_helper.py line 106)
TrailerText == marker \o <<"0">>

IdleRead ==
    [pc |-> "idle", op |-> "none", display |-> 0, feature_codes |-> <<>>,
     issued |-> <<>>, output_lines |-> <<>>]

\* the facade with an authenticated session whose shell is idle, or with none
InitRead ==
    /\ Construction /\ pkexec = TRUE /\ nsess = 0
    /\ text \in {[transport |-> r, alive |-> r = "session", pipe |-> <<>>,
                  pending |-> <<>>] : r \in {"session", "direct"}}
    /\ cursor = 0
    /\ work = IdleRead
    /\ result = NoResult

\* _run_async lines 175-185 for the calls of one read: written to the session's
\* shell (privileged_helper.py lines 93-94, 109-110), or run as children
Issue(op, display, feature_codes, calls) ==
    /\ work' = [pc |-> IF text.transport = "session" THEN "read" ELSE "communicate",
                op |-> op, display |-> display, feature_codes |-> feature_codes,
                issued |-> calls, output_lines |-> <<>>]
    /\ text' = IF text.transport = "session"
               THEN [text EXCEPT !.pending = @ \o calls]
               ELSE text
    /\ result' = NoResult

\* get_vcp, lines 270-273, up to the suspension in _run_async
CallGetVcp(display, feature_code) ==
    /\ work.pc \in {"idle", "done"}
    /\ cursor < MaxReads
    /\ cursor' = cursor + 1
    /\ Issue("get_vcp", display, <<feature_code>>,
             <<GetVcpArgs(display, <<feature_code>>)>>)
    /\ UNCHANGED transportVars

\* get_vcp_multiple, lines 278-289, up to the suspension in _run_async
CallGetVcpMultiple(display, feature_codes) ==
    /\ work.pc \in {"idle", "done"}
    /\ cursor < MaxReads
    /\ cursor' = cursor + 1
    /\ IF NoCodes(feature_codes)
       THEN \* lines 282-283
            /\ work' = [IdleRead EXCEPT !.pc = "done", !.op = "get_vcp_multiple",
                                        !.display = display]
            /\ result' = [how |-> "return", values |-> <<>>]
            /\ UNCHANGED text
       ELSE Issue("get_vcp_multiple", display, feature_codes,
                  CallsOf(display, feature_codes))
    /\ UNCHANGED transportVars

\* lines 275-276 and line 290: what the read returns for the stdout of its call
Finish(stdout) ==
    LET values == ParseOutput(stdout)
    IN  /\ work' = [work EXCEPT !.pc = "done"]
        /\ result' = IF work.op = "get_vcp"
                     THEN [how |-> "return",
                           value |-> Get(values, work.feature_codes[1], None)]
                     ELSE [how |-> "return", values |-> values]

\* the shell runs the oldest command line it holds and prints ddcutil's
\* output and the trailer's line
ShellAnswer ==
    /\ text.alive
    /\ text.pending # <<>>
    /\ \E r \in Responses(Head(text.pending)) :
          text' = [text EXCEPT !.pipe = @ \o r \o <<TrailerText>>,
                               !.pending = Tail(@)]
    /\ UNCHANGED <<cursor, work, result>>
    /\ UNCHANGED transportVars

\* the shell exits: its stdout ends after what it has printed
ShellExit ==
    /\ text.alive
    /\ text' = [text EXCEPT !.alive = FALSE, !.pending = <<>>]
    /\ UNCHANGED <<cursor, work, result>>
    /\ UNCHANGED transportVars

\* privileged_helper.py lines 118-138 and 143-144: one line of the pipe
SessionReadLine ==
    /\ work.pc = "read"
    /\ text.pipe # <<>>
    /\ text' = [text EXCEPT !.pipe = Tail(@)]
    /\ IF StartsWith(Head(text.pipe), marker)
       THEN Finish(JoinLines(work.output_lines))
       ELSE /\ work' = [work EXCEPT !.output_lines = Append(@, Head(text.pipe))]
            /\ UNCHANGED result
    /\ UNCHANGED cursor
    /\ UNCHANGED transportVars

\* privileged_helper.py lines 140-141: no line within the timeout
SessionReadTimeout ==
    /\ work.pc = "read"
    /\ text.pipe = <<>>
    /\ text.alive
    /\ Finish(<<>>)
    /\ UNCHANGED <<text, cursor>>
    /\ UNCHANGED transportVars

\* privileged_helper.py lines 122-126 and 143-144: the stdout has ended; the
\* session is no longer authenticated and later calls run directly
SessionReadEof ==
    /\ work.pc = "read"
    /\ text.pipe = <<>>
    /\ ~text.alive
    /\ text' = [text EXCEPT !.transport = "direct"]
    /\ Finish(JoinLines(work.output_lines))
    /\ UNCHANGED cursor
    /\ UNCHANGED transportVars

\* ddcutil.py lines 181-201: the child has run and its output is returned
DirectDone ==
    /\ work.pc = "communicate"
    /\ \E r \in Responses(work.issued[1]) : Finish(OutputText(r))
    /\ UNCHANGED <<text, cursor>>
    /\ UNCHANGED transportVars

\* ddcutil.py lines 195 and 202-203: PermissionError, or DDCUtilError on a
\* timeout
DirectRaise(e) ==
    /\ work.pc = "communicate"
    /\ work' = [work EXCEPT !.pc = "done"]
    /\ result' = [how |-> "raise", err |-> e]
    /\ UNCHANGED <<text, cursor>>
    /\ UNCHANGED transportVars

NextRead ==
    \/ \E d \in ReadDisplays, c \in ReadCodes : CallGetVcp(d, c)
    \/ \E d \in ReadDisplays, q \in SeqsUpTo(ReadCodes, MaxCodes) : CallGetVcpMultiple(d, q)
    \/ ShellAnswer
    \/ ShellExit
    \/ SessionReadLine
    \/ SessionReadTimeout
    \/ SessionReadEof
    \/ DirectDone
    \/ \E e \in {"PermissionError", "DDCUtilError"} : DirectRaise(e)

SpecRead == InitRead /\ [][NextRead]_vars

\* the codes of a list
CodeSet(feature_codes) == {feature_codes[i] : i \in 1..Len(feature_codes)}

\* C31: a multi-feature read of N >= 1 codes issues exactly one transport call,
\* whose command line carries all N codes; a read of an empty list issues no
\* call and returns an empty mapping.
C31_OneCallForAllCodes ==
    work.op = "get_vcp_multiple" =>
        IF work.feature_codes = <<>>
        THEN /\ work.issued = <<>>
             /\ result.how = "return"
             /\ DOMAIN result.values = {}
        ELSE /\ Len(work.issued) = 1
             /\ Head(work.issued[1]) = getvcp
             /\ CodesOfArgs(work.issued[1]) = work.feature_codes

\* a read of two codes over the session returned both values from one call
C31_TwoCodesOneCall ==
    /\ work.op = "get_vcp_multiple"
    /\ work.pc = "done"
    /\ Len(work.feature_codes) = 2
    /\ Len(work.issued) = 1
    /\ result.how = "return"
    /\ DOMAIN result.values = CodeSet(work.feature_codes)
    /\ Cardinality(DOMAIN result.values) = 2

\* C38: the keys of the mapping a multi-feature read returns are among the
\* codes the read asked for, and a single-feature read returns nothing or a
\* value whose code is the code asked for, over both transports and after any
\* earlier calls.
C38_OnlyRequestedCodes ==
    (work.pc = "done" /\ result.how = "return") =>
        IF work.op = "get_vcp"
        THEN ~Truthy(result.value) \/ result.value.code = work.feature_codes[1]
        ELSE DOMAIN result.values \subseteq CodeSet(work.feature_codes)

-----------------------------------------------------------------------------
\* MainWindow._detect_monitors, window.py lines 122-151, with the two loaders
\* of lines 153-190: one detection pass, each call of the facade either
\* returning or failing in one of the ways its transport can fail

\* bound on the monitors one detection finds
MaxMonitors == 2

\* the ways a transport call can fail, by transport
Failures(route) ==
    IF route = "direct" THEN {"Timeout", "PermissionDenied", "ProcessLaunchFailed"}
    ELSE {"Timeout", "NotAuthenticated"}

\* what a failing call of _run_async raises: DDCUtilError on a direct timeout
\* (ddcutil.py lines 202-203), the builtin PermissionError (line 195), the
\* OSError of create_subprocess_exec (line 181, not handled), RuntimeError of
\* the session (privileged_helper.py lines 91 and 102); a timeout of the
\* session raises nothing: it returns ("", "Command timed out", -1) (line 141)
ExceptionOf(route, failure) ==
    CASE failure = "Timeout" /\ route = "direct" -> "DDCUtilError"
      [] failure = "Timeout" /\ route = "session" -> "none"
      [] failure = "PermissionDenied" -> "PermissionError"
      [] failure = "ProcessLaunchFailed" -> "OSError"
      [] failure = "NotAuthenticated" -> "RuntimeError"

\* window.py lines 148, 164 and 188: except DDCUtilError
Caught(exception) == exception = "DDCUtilError"

\* Monitor.from_info, window.py line 137: nothing loaded yet
NewMonitor(n) ==
    [display_number |-> n, supported_features |-> {}, vcp_values |-> <<>>,
     capabilities |-> "pending", values |-> "pending"]

\* what a successful capability probe and feature read may hand back
SupportedSets == {{16, 18}, {16, 18, 96}}
ValueMappings == {(16 :> VCPValue(16, 50, 100)),
                  (16 :> VCPValue(16, 50, 100)) @@ (18 :> VCPValue(18, 70, 100))}

\* line 127: set_loading(True)
InitPass ==
    /\ Construction /\ pkexec = TRUE /\ nsess = 0
    /\ text \in {[route |-> r] : r \in {"session", "direct"}}
    /\ cursor = 0
    /\ work = [pc |-> "detect", monitors |-> <<>>, loading |-> TRUE, shown |-> "status"]
    /\ result = NoResult

\* lines 148-151 for an exception raised under the try of line 129
Raise(exception, stage) ==
    IF Caught(exception)
    THEN \* lines 148-149, then 150-151
         /\ work' = [work EXCEPT !.pc = "done", !.loading = FALSE, !.shown = "error"]
         /\ result' = [how |-> "return", stage |-> stage, err |-> exception]
    ELSE \* lines 150-151, and the exception leaves _detect_monitors
         /\ work' = [work EXCEPT !.pc = "aborted", !.loading = FALSE]
         /\ result' = [how |-> "raise", stage |-> stage, err |-> exception]

\* lines 131-137: detect_monitors returns n monitors
PassDetect(n) ==
    /\ work.pc = "detect"
    /\ IF n = 0
       THEN \* lines 133-135, then 150-151
            /\ work' = [work EXCEPT !.pc = "done", !.loading = FALSE,
                                   !.shown = "no_monitors"]
            /\ result' = [how |-> "return", stage |-> "detect", err |-> "none"]
            /\ UNCHANGED cursor
       ELSE /\ work' = [work EXCEPT !.pc = "capabilities",
                                   !.monitors = [i \in 1..n |-> NewMonitor(i)]]
            /\ cursor' = 1
            /\ UNCHANGED result
    /\ UNCHANGED text
    /\ UNCHANGED transportVars

\* line 131: detect_monitors fails
PassDetectFails(failure) ==
    /\ work.pc = "detect"
    /\ failure \in Failures(text.route)
    /\ ExceptionOf(text.route, failure) # "none"
    /\ Raise(ExceptionOf(text.route, failure), "detect")
    /\ UNCHANGED <<text, cursor>>
    /\ UNCHANGED transportVars

\* lines 141 and 158-163: get_capabilities returns
LoadCapabilities(supported) ==
    /\ work.pc = "capabilities"
    /\ work' = [work EXCEPT !.pc = "values",
                            !.monitors[cursor].supported_features = supported,
                            !.monitors[cursor].capabilities = "loaded"]
    /\ UNCHANGED <<text, cursor, result>>
    /\ UNCHANGED transportVars

\* lines 141 and 158-166: get_capabilities fails
LoadCapabilitiesFails(failure) ==
    /\ work.pc = "capabilities"
    /\ failure \in Failures(text.route)
    /\ LET exception == ExceptionOf(text.route, failure)
       IN  IF exception = "none"
           THEN \* the empty stdout is parsed: nothing is supported
                /\ work' = [work EXCEPT !.pc = "values",
                                        !.monitors[cursor].supported_features = {},
                                        !.monitors[cursor].capabilities = "failed"]
                /\ UNCHANGED result
           ELSE IF Caught(exception)
           THEN \* lines 164-166
                /\ work' = [work EXCEPT !.pc = "values",
                                        !.monitors[cursor].capabilities = "failed"]
                /\ UNCHANGED result
           ELSE Raise(exception, "capabilities")
    /\ UNCHANGED <<text, cursor>>
    /\ UNCHANGED transportVars

\* after line 142: the next monitor of the loop of line 140, or line 145
AfterValues == IF cursor < Len(work.monitors) THEN "capabilities" ELSE "panels"

\* lines 142 and 182-187: get_vcp_multiple returns
LoadValues(values) ==
    /\ work.pc = "values"
    /\ work' = [work EXCEPT !.pc = AfterValues,
                            !.monitors[cursor].vcp_values = SetVcpValues(@, values),
                            !.monitors[cursor].values = "loaded"]
    /\ cursor' = IF cursor < Len(work.monitors) THEN cursor + 1 ELSE cursor
    /\ UNCHANGED <<text, result>>
    /\ UNCHANGED transportVars

\* lines 142 and 182-190: get_vcp_multiple fails
LoadValuesFails(failure) ==
    /\ work.pc = "values"
    /\ failure \in Failures(text.route)
    /\ LET exception == ExceptionOf(text.route, failure)
       IN  IF exception = "none" \/ Caught(exception)
           THEN \* the empty stdout holds no value, or lines 188-190
                /\ work' = [work EXCEPT !.pc = AfterValues,
                                        !.monitors[cursor].values = "failed"]
                /\ cursor' = IF cursor < Len(work.monitors) THEN cursor + 1 ELSE cursor
                /\ UNCHANGED result
           ELSE /\ Raise(exception, "values")
                /\ UNCHANGED cursor
    /\ UNCHANGED text
    /\ UNCHANGED transportVars

\* lines 145 and 150-151: the panels are built and the pass ends
BuildMonitorPanels ==
    /\ work.pc = "panels"
    /\ work' = [work EXCEPT !.pc = "done", !.loading = FALSE, !.shown = "monitors"]
    /\ result' = [how |-> "return", stage |-> "panels", err |-> "none"]
    /\ UNCHANGED <<text, cursor>>
    /\ UNCHANGED transportVars

AllFailures == Failures("direct") \cup Failures("session")

NextPass ==
    \/ \E n \in 0..MaxMonitors : PassDetect(n)
    \/ \E f \in AllFailures : PassDetectFails(f)
    \/ \E s \in SupportedSets : LoadCapabilities(s)
    \/ \E f \in AllFailures : LoadCapabilitiesFails(f)
    \/ \E v \in ValueMappings : LoadValues(v)
    \/ \E f \in AllFailures : LoadValuesFails(f)
    \/ BuildMonitorPanels

SpecPass == InitPass /\ [][NextPass]_vars

-----------------------------------------------------------------------------
\* The session under a fair event loop: a task that can take the lock is
\* resumed, and every readline() of _run_command line 119 ends with a line,
\* with the end of the stream, or with the timeout of asyncio.wait_for

Fairness ==
    \A t \in Tasks :
        /\ WF_vars(LockResume(t))
        /\ WF_vars(ReadAvail(t) \/ ReadEof(t) \/ ReadTimeout(t))

SpecFair == Init /\ [][Next]_vars /\ Fairness

\* the lock of a session is held by a task inside the read loop only
LockHeldWhileReading ==
    \A s \in Sessions :
        lockOwner[s] # 0 =>
            /\ task[lockOwner[s]].pc = "read"
            /\ task[lockOwner[s]].sess = s

====
